---- MODULE Spec2Model ----
(***************************************************************************)
(* Model of the OpsPilot incident-response core:                           *)
(*   - OpsPilotAgent.executeRemediation / executeAction (the execution     *)
(*     sequencer and its approval gate),                                   *)
(*   - OpsPilotAgent.handleIncident driven by the Lambda handler (status   *)
(*     lifecycle, plan generation, verification),                          *)
(*   - BedrockService.executeAgenticWorkflow (the tool-calling loop).      *)
(* Each subsystem has its own specification over the shared variables.     *)
(***************************************************************************)
EXTENDS Integers, Sequences, FiniteSets, TLC

VARIABLES
  \* ---- executeRemediation(incident, plan) ----
  plan,          \* the plan argument (plan.actions is sorted in place)
  epc,           \* position inside executeRemediation
  idx,           \* for-of position in the sorted action list
  results,       \* ExecutionResult[] being built
  dispatched,    \* ids of the actions handed to executeAction, in order
  rcCalls,       \* calls issued to the resource controller (LambdaService)
  audit,         \* the audit table: entries appended by logAudit
  \* ---- handler / handleIncident ----
  hpc,           \* position inside handler + handleIncident
  incident,      \* the Incident object of the current run
  incidentStore, \* the Incidents table: id -> stored status ("none" if absent)
  statusWrites,  \* status values written to the store by the current run
  diagnosis,     \* DiagnosisResult of the current run
  hPlan,         \* RemediationPlan of the current run
  verification,  \* VerificationResult of the current run
  response,      \* status code of the handler's response (0: none yet)
  failures,      \* the calls of the current run that failed (history)
  \* ---- executeAgenticWorkflow(initialPrompt, tools, maxIterations) ----
  lpc,           \* position inside executeAgenticWorkflow
  maxIterations, \* the argument
  iterations,    \* the local counter
  messages,      \* the conversation
  toolCalls,     \* recorded tool invocations
  responses,     \* responses received from converse(), in order
  finalResponse, \* the returned finalResponse
  \* ---- BedrockService.planRemediation and the plan cache ----
  planCache,     \* the item under key demo_plan_latest of the audit table
  planResult,    \* what the last planRemediation call returned
  \* ---- calls observed ----
  request,       \* the last call issued that is observed: its name and arguments
  reply,         \* what a directly called function returned
  \* ---- the Lambda functions' configuration, and concurrent restart_service runs ----
  env,           \* per function: the LAST_RESTART variable, and who wrote the map when
  proc,          \* per concurrent incident: its target and where its restart_service is
  clock,         \* the wall clock new Date() reads
  lostUpdates,   \* the writes that replaced a map written after the writer's read
  \* ---- helper functions called on their own ----
  retry,         \* a retryWithBackoff call: arguments, attempt, calls of fn, waits, outcome
  test,          \* a testFunction call: arguments, loop index, batches run, counters
  event          \* the event the Lambda handler was invoked with

execVars == <<plan, epc, idx, results, dispatched, rcCalls>>
incVars  == <<hpc, incident, incidentStore, statusWrites, diagnosis, hPlan, verification, response,
              failures>>
loopVars == <<lpc, maxIterations, iterations, messages, toolCalls, responses, finalResponse>>
planVars == <<planCache, planResult>>
callVars == <<request, reply>>
libVars  == <<env, proc, clock, lostUpdates, retry, test, event>>
vars     == <<execVars, audit, incVars, loopVars, planVars, callVars, libVars>>

Null == "null"

(***************************************************************************)
(* Bounds of the model.                                                    *)
(***************************************************************************)
MaxActions == 3   \* longest action list handed to executeRemediation
MaxIter    == 3   \* largest maxIterations argument
MaxAudit   == 2   \* longest audit trail written by direct calls to the store
MaxPlanLen == 6   \* longest action list handed to performSafetyChecks

(***************************************************************************)
(* Remediation actions and plans.                                          *)
(***************************************************************************)
\* RemediationAction.type; the plans fed to executeRemediation below take one
\* type per branch of executeAction's switch (custom takes the default branch,
\* as scale_resources and rollback do).
ActionTypes == {"update_config", "restart_service", "scale_resources", "rollback", "custom"}
InputTypes  == {"update_config", "restart_service", "custom"}
Orders      == {1, 2, 3}

\* A RemediationAction: id (a uuid, unique in the plan), type, order and the
\* functionName parameter.
MkAction(i, t, o, fn) == [id |-> i, type |-> t, order |-> o, functionName |-> fn]

\* Array.prototype.sort((a, b) => a.order - b.order): stable, ascending order.
RECURSIVE InsertByOrder(_, _)
InsertByOrder(s, a) ==
  IF s = <<>> THEN <<a>>
  ELSE IF s[Len(s)].order <= a.order THEN Append(s, a)
  ELSE Append(InsertByOrder(SubSeq(s, 1, Len(s) - 1), a), s[Len(s)])

SortByOrderMut(s) == s
RECURSIVE SortByOrder(_)
SortByOrder(s) ==
  IF s = <<>> THEN <<>>
  ELSE InsertByOrder(SortByOrder(SubSeq(s, 1, Len(s) - 1)), s[Len(s)])

\* performSafetyChecks(actions, incident)
RateLimit == 5
PerformSafetyChecksMut(actions) ==
  << [type |-> "rate_limit",         passed |-> Len(actions) < RateLimit],
     [type |-> "rollback_available", passed |-> TRUE],
     [type |-> "resource_limit",     passed |-> TRUE] >>
PerformSafetyChecks(actions) ==
  << [type |-> "rate_limit",         passed |-> Len(actions) <= RateLimit],
     [type |-> "rollback_available", passed |-> TRUE],
     [type |-> "resource_limit",     passed |-> TRUE] >>

\* safetyChecks.some(check => !check.passed)
ApprovalRequiredMut(checks) == \E i \in DOMAIN checks : checks[i].passed
ApprovalRequired(checks) == \E i \in DOMAIN checks : ~checks[i].passed

NoPlan == [id |-> <<"plan", <<"none", 0>>>>, incidentId |-> <<"none", 0>>, actions |-> <<>>,
           safetyChecks |-> <<>>, approvalRequired |-> FALSE]

\* The plans executeRemediation is called with when it is called directly:
\* any action list, any approvalRequired flag.
ActionLists ==
  UNION { { [i \in 1..n |-> MkAction(i, k[i][1], k[i][2], "fn")] :
              k \in [1..n -> InputTypes \X Orders] } : n \in 0..MaxActions }

InputPlans ==
  { [id |-> <<"plan", <<"given", 1>>>>, incidentId |-> <<"given", 1>>, actions |-> a,
     safetyChecks |-> PerformSafetyChecks(a), approvalRequired |-> g] :
       a \in ActionLists, g \in BOOLEAN }

(***************************************************************************)
(* executeRemediation                                                      *)
(***************************************************************************)
\* The argument of logAudit: an AuditEntry without its id.
AuditEntry(inc, act, det, res) ==
  [incidentId |-> inc, action |-> act, detail |-> det, result |-> res]

\* logAudit(entry): the id is a new uuid (the n-th one drawn), and the item is
\* put under it; the trail lists the items of the audit table in the order
\* they were written.
Uuid(n) == <<"uuid", n>>
LogAuditMut(trail, entry) ==
  IF trail = <<>>
    THEN <<[id |-> Uuid(1), incidentId |-> entry.incidentId, action |-> entry.action,
            detail |-> entry.detail, result |-> entry.result]>>
    ELSE [trail EXCEPT ![Len(trail)] =
            [id |-> Uuid(Len(trail)), incidentId |-> entry.incidentId,
             action |-> entry.action, detail |-> entry.detail, result |-> entry.result]]
LogAudit(trail, entry) ==
  Append(trail, [id |-> Uuid(Len(trail) + 1), incidentId |-> entry.incidentId,
                 action |-> entry.action, detail |-> entry.detail,
                 result |-> entry.result])

RcCall(op, fn, ok) == [op |-> op, fn |-> fn, ok |-> ok]

\* Lines 369-378: the results list, the approval gate, the in-place sort.
GateMut(p) == FALSE
Gate(p) == p.approvalRequired

ExecStart ==
  /\ epc = "start"
  /\ results' = <<>>
  /\ IF Gate(plan)
       THEN /\ epc' = "done"
            /\ UNCHANGED <<plan, idx>>
       ELSE /\ plan' = [plan EXCEPT !.actions = SortByOrder(@)]
            /\ idx' = 1
            /\ epc' = "loop"
  /\ UNCHANGED <<dispatched, rcCalls, audit, incVars, loopVars, planVars, callVars, libVars>>

\* executeAction(action): the outcomes of the handler registered for the type.
\* Each outcome is the list of resource-controller calls issued and whether
\* the handler completed without throwing.
\* ExecutionResult.output: what updateFunctionConfig returned, the default
\* branch's message, or nothing when the handler threw (error is set instead).
NotImplemented == "Action type not implemented for auto-execution"
HandlerOutput(ok) == IF ok THEN "FunctionConfiguration" ELSE "undefined"
ActionOutcomesMut(a) ==
  CASE a.type = "update_config" ->
         { [calls |-> <<RcCall("update", a.functionName, ok)>>, success |-> ok,
            output |-> HandlerOutput(ok)] :
             ok \in IF a.functionName = Null THEN {FALSE} ELSE BOOLEAN }
    [] a.type = "restart_service" ->
         { [calls |-> <<RcCall("get", a.functionName, FALSE)>>, success |-> FALSE,
            output |-> HandlerOutput(FALSE)] }
         \cup
         { [calls |-> <<RcCall("get", a.functionName, TRUE),
                        RcCall("update", a.functionName, ok)>>, success |-> ok,
            output |-> HandlerOutput(ok)] :
             ok \in IF a.functionName = Null THEN {} ELSE BOOLEAN }
    [] OTHER ->
         { [calls |-> <<>>, success |-> FALSE, output |-> NotImplemented] }
ActionOutcomes(a) ==
  CASE a.type = "update_config" ->
         { [calls |-> <<RcCall("update", a.functionName, ok)>>, success |-> ok,
            output |-> HandlerOutput(ok)] :
             ok \in IF a.functionName = Null THEN {FALSE} ELSE BOOLEAN }
    [] a.type = "restart_service" ->
         { [calls |-> <<RcCall("get", a.functionName, FALSE)>>, success |-> FALSE,
            output |-> HandlerOutput(FALSE)] }
         \cup
         { [calls |-> <<RcCall("get", a.functionName, TRUE),
                        RcCall("update", a.functionName, ok)>>, success |-> ok,
            output |-> HandlerOutput(ok)] :
             ok \in IF a.functionName = Null THEN {} ELSE BOOLEAN }
    [] OTHER ->
         { [calls |-> <<>>, success |-> TRUE, output |-> NotImplemented] }

ExecuteAction ==
  /\ epc = "loop"
  /\ idx <= Len(plan.actions)
  /\ \E o \in ActionOutcomes(plan.actions[idx]) :
       /\ dispatched' = Append(dispatched, plan.actions[idx].id)
       /\ rcCalls' = rcCalls \o o.calls
       /\ results' = Append(results, [actionId |-> plan.actions[idx].id,
                                      success  |-> o.success,
                                      output   |-> o.output])
  /\ epc' = "log"
  /\ UNCHANGED <<plan, idx, audit, incVars, loopVars, planVars, callVars, libVars>>

\* Lines 389-393: stop on failure.
StopAfterMut(r) == FALSE
StopAfter(r) == ~r.success

\* Line 385: result.success ? 'success' : 'failure'
ActionResultLabelMut(r) == "success"
ActionResultLabel(r) == IF r.success THEN "success" ELSE "failure"

\* logActionExecution(...) then the stop-on-failure test.  The audit write may
\* throw, which rejects executeRemediation as a whole.
LogActionExecution ==
  /\ epc = "log"
  /\ \E ok \in BOOLEAN :
       IF ok
         THEN /\ audit' = LogAudit(audit,
                    AuditEntry(incident.id, <<"action_executed", results[Len(results)].actionId>>,
                               plan.actions[idx].type,
                               ActionResultLabel(results[Len(results)])))
              /\ IF StopAfter(results[Len(results)])
                   THEN epc' = "done" /\ idx' = idx
                   ELSE epc' = "loop" /\ idx' = idx + 1
         ELSE /\ epc' = "thrown"
              /\ UNCHANGED <<audit, idx>>
  /\ UNCHANGED <<plan, results, dispatched, rcCalls, incVars, loopVars, planVars, callVars, libVars>>

ExecLoopEnd ==
  /\ epc = "loop"
  /\ idx > Len(plan.actions)
  /\ epc' = "done"
  /\ UNCHANGED <<plan, idx, results, dispatched, rcCalls, audit, incVars, loopVars, planVars, callVars, libVars>>

(***************************************************************************)
(* The reasoning service's free text, as the code reads it.                *)
(***************************************************************************)
\* A narrative is a list of words; String.toLowerCase maps each word.
Words == {"Memory", "timeout", "RESTART", "redeploy", "disk"}
ToLowerCaseMut(w) == w
ToLowerCase(w) ==
  CASE w = "Memory"  -> "memory"
    [] w = "RESTART" -> "restart"
    [] OTHER         -> w

\* planText.toLowerCase().includes(keyword)
Includes(text, kw) == \E i \in DOMAIN text : ToLowerCase(text[i]) = kw

Narratives ==
  { <<>>, <<"disk">>, <<"Memory">>, <<"timeout", "disk">>, <<"RESTART">>,
    <<"redeploy", "Memory">>, <<"memory">> }

\* extractFunctionName(arn): the name after "function:", or null.
Arns == {"arn:function:fn", "arn:other"}
ExtractFunctionName(arn) == IF arn = "arn:function:fn" THEN "fn" ELSE Null

\* parseRemediationActions(planText, incident)
ParseRemediationActionsMut(planText, inc) ==
  LET fn == ExtractFunctionName(inc.resourceArn)
      a1 == IF Includes(planText, "memory") \/ Includes(planText, "timeout")
              THEN <<[id |-> 1, type |-> "update_config", order |-> 1,
                      functionName |-> fn, memorySize |-> 512, timeout |-> 30]>>
              ELSE <<>>
      a2 == IF Includes(planText, "restart")
              THEN <<[id |-> 2, type |-> "restart_service", order |-> 2,
                      functionName |-> fn]>>
              ELSE <<>>
  IN IF a1 \o a2 = <<>>
       THEN <<[id |-> 3, type |-> "custom", order |-> 1, functionName |-> Null,
               note |-> planText]>>
       ELSE a1 \o a2
ParseRemediationActions(planText, inc) ==
  LET fn == ExtractFunctionName(inc.resourceArn)
      a1 == IF Includes(planText, "memory") \/ Includes(planText, "timeout")
              THEN <<[id |-> 1, type |-> "update_config", order |-> 1,
                      functionName |-> fn, memorySize |-> 512, timeout |-> 30]>>
              ELSE <<>>
      a2 == IF Includes(planText, "restart") \/ Includes(planText, "redeploy")
              THEN <<[id |-> 2, type |-> "restart_service", order |-> 2,
                      functionName |-> fn]>>
              ELSE <<>>
  IN IF a1 \o a2 = <<>>
       THEN <<[id |-> 3, type |-> "custom", order |-> 1, functionName |-> Null,
               note |-> planText]>>
       ELSE a1 \o a2

\* Line 258: the call parseRemediationActions(planText, incident).
ParseRequest(planText, inc) ==
  [fn |-> "parseRemediationActions", planText |-> planText, resourceArn |-> inc.resourceArn]

\* Lines 263-271: the RemediationPlan object.
BuildPlanMut(actions, incId) ==
  LET checks == PerformSafetyChecks(actions)
  IN [id |-> <<"plan", incId>>, incidentId |-> incId, actions |-> actions,
      safetyChecks |-> checks, approvalRequired |-> ~ApprovalRequired(checks)]
BuildPlan(actions, incId) ==
  LET checks == PerformSafetyChecks(actions)
  IN [id |-> <<"plan", incId>>, incidentId |-> incId, actions |-> actions,
      safetyChecks |-> checks, approvalRequired |-> ApprovalRequired(checks)]

(***************************************************************************)
(* The incident store (DynamoDBService)                                    *)
(***************************************************************************)
Statuses == {"open", "investigating", "remediating", "resolved", "failed"}
\* Incident ids: the one an event carries, or `incident-${Date.now()}`.
NoId == <<"none", 0>>
GivenId == <<"given", 1>>
GenId == <<"incident", 1>>
IncidentIds == {GivenId, GenId}

\* A store operation followed by its logAudit call: either the store command
\* throws (nothing written), or the audit write throws (store written, no
\* entry), or both complete.
StoreOutcomes == {"store_throws", "audit_throws", "ok"}
StoreFailure(o) == IF o = "ok" THEN {} ELSE {"store"}

\* saveIncident: PutCommand of the whole item, whatever is stored under the id.
PutIncident(store, inc) == [store EXCEPT ![inc.id] = inc.status]

\* updateIncidentStatus: UpdateCommand SET #status = :status on Key {id}.
SetStatus(store, id, status) == [store EXCEPT ![id] = status]

(***************************************************************************)
(* handler(event) and handleIncident(incident)                             *)
(***************************************************************************)
NoIncident == [id |-> NoId, resourceArn |-> Null, status |-> Null, description |-> <<>>]
NoDiagnosis == [rootCause |-> Null]
NoVerification == [success |-> FALSE, checks |-> <<>>, metricsImproved |-> FALSE, probes |-> <<>>,
                   fetched |-> [threw |-> FALSE, present |-> FALSE, values |-> <<>>],
                   done |-> FALSE]

\* What an incident report says, as a list of words.
Descriptions == { <<"disk">>, <<"timeout", "Memory">>, <<"Memory", "disk", "timeout">> }

Events ==
  { [incidentId |-> i, resourceArn |-> a, description |-> <<"timeout", "Memory">>] :
      i \in {NoId, GivenId}, a \in Arns \cup {Null} }

\* handler lines 30-58: a status query only reads; otherwise the Incident
\* object is created with status 'open' and handed to handleIncident.
IsStatusQueryMut(e) == e.incidentId # NoId
IsStatusQuery(e) == e.incidentId # NoId /\ e.resourceArn = Null

HandlerInvoke ==
  /\ hpc = "idle"
  /\ \E e \in Events :
       /\ event' = e
       /\ IF IsStatusQuery(e)
            THEN \* getIncident and getAuditTrail: reads only, either may throw
                 /\ hpc' = "responded"
                 /\ response' \in {200, 500}
                 /\ UNCHANGED incident
            ELSE /\ incident' = [id |-> IF e.incidentId # NoId THEN e.incidentId ELSE GenId,
                                 resourceArn |-> e.resourceArn,
                                 status |-> "open",
                                 description |-> e.description]
                 /\ hpc' = "save"
                 /\ UNCHANGED response
  /\ UNCHANGED <<incidentStore, statusWrites, diagnosis, hPlan, verification, failures,
                 execVars, audit, loopVars, planVars, callVars,
                 env, proc, clock, lostUpdates, retry, test>>

\* handleIncident line 136: saveIncident(incident)
SaveIncident ==
  /\ hpc = "save"
  /\ \E o \in StoreOutcomes :
       /\ IF o = "store_throws"
            THEN UNCHANGED <<incidentStore, statusWrites>>
            ELSE /\ incidentStore' = PutIncident(incidentStore, incident)
                 /\ statusWrites' = Append(statusWrites, incident.status)
       /\ IF o = "ok"
            THEN audit' = LogAudit(audit, AuditEntry(incident.id, <<"incident_created">>,
                                                   incident.status, "success"))
            ELSE UNCHANGED audit
       /\ hpc' = IF o = "ok" THEN "set_investigating" ELSE "thrown"
       /\ failures' = failures \cup StoreFailure(o)
  /\ UNCHANGED <<incident, diagnosis, hPlan, verification, response, execVars, loopVars, planVars, callVars, libVars>>

\* updateIncidentStatus(incident.id, status) at position `at`, going to `next`.
UpdateIncidentStatus(at, status, next) ==
  /\ hpc = at
  /\ \E o \in StoreOutcomes :
       /\ IF o = "store_throws"
            THEN UNCHANGED <<incidentStore, statusWrites>>
            ELSE /\ incidentStore' = SetStatus(incidentStore, incident.id, status)
                 /\ statusWrites' = Append(statusWrites, status)
       /\ IF o = "ok"
            THEN audit' = LogAudit(audit, AuditEntry(incident.id, <<"status_updated">>,
                                                   status, "success"))
            ELSE UNCHANGED audit
       /\ hpc' = IF o = "ok" THEN next ELSE "thrown"
       /\ failures' = failures \cup StoreFailure(o)
  /\ UNCHANGED <<incident, diagnosis, hPlan, verification, response, loopVars, planVars, callVars, libVars>>

\* Line 137.
SetInvestigating ==
  /\ UpdateIncidentStatus("set_investigating", "investigating", "investigate")
  /\ UNCHANGED execVars

\* investigate(incident): telemetry is best effort, the diagnosis call and the
\* audit write are not.  The metrics fetch comes first and the log query
\* second, inside one try: a failing fetch leaves both empty, a failing query
\* leaves the logs empty.
TelemetryOutcomes == {"ok", "metrics_throw", "logs_throw"}
DiagnosisTexts == {<<>>, <<"Memory">>, <<"timeout", "disk">>}

\* Lines 183-200: what investigate has gathered when it builds the request.
Gathered(fn, t) ==
  [metrics |-> fn # Null /\ t # "metrics_throw", logs |-> fn # Null /\ t = "ok"]

\* Lines 197-199: the catch logs the telemetry error and does not rethrow it.
TelemetryRethrownMut(fn, t) == fn # Null /\ t # "ok"
TelemetryRethrown(fn, t) == FALSE

\* Lines 203-207: bedrock.diagnoseIncident(description, metrics, logs).
DiagnoseRequest(inc, g) ==
  [fn |-> "diagnoseIncident", description |-> inc.description,
   metrics |-> g.metrics, logs |-> g.logs]

Investigate ==
  /\ hpc = "investigate"
  /\ IF incident.resourceArn = Null
       THEN \* arn.match on undefined throws
            /\ hpc' = "thrown"
            /\ failures' = failures \cup {"investigate"}
            /\ UNCHANGED <<diagnosis, audit, request>>
       ELSE \E t \in TelemetryOutcomes, text \in DiagnosisTexts,
               o \in {"diagnose_throws", "audit_throws", "ok"} :
              LET fn == ExtractFunctionName(incident.resourceArn)
                  g  == Gathered(fn, IF fn # Null THEN t ELSE "ok")
                  d  == [rootCause |-> IF text = <<>> THEN "Unknown" ELSE text[1],
                         confidence |-> 85,
                         affectedComponent |-> IF fn # Null THEN fn ELSE incident.resourceArn,
                         hasMetrics |-> g.metrics,
                         reasoning |-> text]
              IN IF TelemetryRethrown(fn, t)
                   THEN /\ hpc' = "thrown"
                        /\ failures' = failures \cup {"telemetry"}
                        /\ UNCHANGED <<diagnosis, audit, request>>
                   ELSE
                 /\ request' = DiagnoseRequest(incident, g)
                 /\ diagnosis' = IF o = "ok" THEN d ELSE diagnosis
                 /\ audit' = IF o = "ok"
                               THEN LogAudit(audit, AuditEntry(incident.id, <<"diagnosis_completed">>,
                                                             d.rootCause, "success"))
                               ELSE audit
                 /\ hpc' = IF o = "ok" THEN "plan" ELSE "thrown"
                 /\ failures' = failures
                      \cup (IF fn # Null /\ t # "ok" THEN {"telemetry"} ELSE {})
                      \cup (CASE o = "diagnose_throws" -> {"diagnosis"}
                              [] o = "audit_throws"    -> {"store"}
                              [] OTHER                 -> {})
  /\ UNCHANGED <<incident, incidentStore, statusWrites, hPlan, verification, response,
                 execVars, loopVars, planVars, reply, libVars>>

\* generateRemediationPlan(incident, diagnosis): the config read is best
\* effort, the reasoning-service call is not.
GenerateRemediationPlan ==
  /\ hpc = "plan"
  /\ \E ok \in BOOLEAN, planText \in Narratives :
       IF ok
         THEN /\ hPlan' = BuildPlan(ParseRemediationActions(planText, incident), incident.id)
              /\ request' = ParseRequest(planText, incident)
              /\ hpc' = "save_plan"
              /\ UNCHANGED failures
         ELSE /\ hpc' = "thrown"
              /\ failures' = failures \cup {"plan"}
              /\ UNCHANGED <<hPlan, request>>
  /\ UNCHANGED <<incident, incidentStore, statusWrites, diagnosis, verification, response,
                 execVars, audit, loopVars, planVars, reply, libVars>>

\* The audit entry saveRemediationPlan logs for the plan (lines 183-193).
PlanCreatedMut(p) ==
  AuditEntry(p.id, <<"plan_created">>,
             IF p.approvalRequired THEN "approvalRequired" ELSE "autoExecutable", "success")
PlanCreated(p) ==
  AuditEntry(p.incidentId, <<"plan_created">>,
             IF p.approvalRequired THEN "approvalRequired" ELSE "autoExecutable", "success")

\* saveRemediationPlan(plan)
SaveRemediationPlan ==
  /\ hpc = "save_plan"
  /\ \E o \in StoreOutcomes :
       /\ audit' = IF o = "ok" THEN LogAudit(audit, PlanCreated(hPlan)) ELSE audit
       /\ hpc' = IF o = "ok" THEN "set_remediating" ELSE "thrown"
       /\ failures' = failures \cup StoreFailure(o)
  /\ UNCHANGED <<incident, incidentStore, statusWrites, diagnosis, hPlan, verification, response,
                 execVars, loopVars, planVars, callVars, libVars>>

\* Line 149.
SetRemediating ==
  /\ UpdateIncidentStatus("set_remediating", "remediating", "call_execute")
  /\ UNCHANGED execVars

\* Line 150: executeRemediation(incident, plan) is entered ...
CallExecuteRemediation ==
  /\ hpc = "call_execute"
  /\ hpc' = "executing"
  /\ plan' = hPlan
  /\ epc' = "start"
  /\ idx' = 0
  /\ dispatched' = <<>>
  /\ rcCalls' = <<>>
  /\ UNCHANGED <<results, audit, incident, incidentStore, statusWrites, diagnosis, hPlan,
                 verification, response, failures, loopVars, planVars, callVars, libVars>>

\* await: handleIncident resumes when the promise of executeRemediation has
\* settled.
SettledMut(e) == TRUE
Settled(e) == e \in {"done", "thrown"}

\* ... and returns its results or rejects.  The plan argument is the caller's
\* object, so the in-place sort shows in the caller's plan.
ExecuteRemediationEnds ==
  /\ hpc = "executing"
  /\ Settled(epc)
  /\ hpc' = IF epc = "thrown" THEN "thrown" ELSE "verify"
  /\ epc' = IF epc \in {"done", "thrown"} THEN "idle" ELSE epc
  /\ hPlan' = plan
  /\ failures' = failures \cup (IF epc = "thrown" THEN {"store"} ELSE {})
  /\ UNCHANGED <<plan, idx, results, dispatched, rcCalls, audit, incident, incidentStore,
                 statusWrites, diagnosis, verification, response, loopVars, planVars, callVars, libVars>>

\* verify(incident), lines 461-526: each check is one try/catch around an
\* external call.  The call reports a pass, reports a fail, or throws; the catch
\* branch pushes the check with passed = false and the error message.
CheckOutcomes == {"pass", "fail", "throw"}
CheckNames == <<"Lambda Health Check", "Test Invocation", "Metrics Check">>

CheckOfMut(name, o) ==
  [name |-> name, passed |-> o # "fail",
   details |-> IF o = "throw" THEN "error.message" ELSE "report"]
CheckOf(name, o) ==
  [name |-> name, passed |-> o = "pass",
   details |-> IF o = "throw" THEN "error.message" ELSE "report"]

\* Lines 459-526: the checks list; nothing is pushed without a function name.
ChecksOf(fn, os) ==
  IF fn # Null THEN [i \in 1..3 |-> CheckOf(CheckNames[i], os[i])] ELSE <<>>

\* Line 528: checks.every(check => check.passed)
AllPassedMut(checks) == \E i \in DOMAIN checks : checks[i].passed
AllPassed(checks) == \A i \in DOMAIN checks : checks[i].passed

\* What cloudwatch.getLambdaMetrics resolves to at line 507, as far as verify
\* reads it: the call throws, or the result has no Errors entry, or the Errors
\* entry has these values.
ErrorSeries == { <<>>, <<0, 0>>, <<0, 2>>, <<2, 0>>, <<1, -1>> }
NoFetch == [threw |-> FALSE, present |-> FALSE, values |-> <<>>]
MetricFetches ==
  { [threw |-> TRUE, present |-> FALSE, values |-> <<>>], NoFetch }
  \cup { [threw |-> FALSE, present |-> TRUE, values |-> v] : v \in ErrorSeries }

\* values.reduce((a, b) => a + b, 0)
RECURSIVE Reduce(_)
Reduce(values) == IF values = <<>> THEN 0 ELSE values[1] + Reduce(Tail(values))

\* Lines 510-511: errorMetric?.values.reduce((a, b) => a + b, 0) || 0
ErrorCountMut(f) == IF f.present /\ f.values # <<>> THEN f.values[Len(f.values)] ELSE 0
ErrorCount(f) == IF f.present THEN Reduce(f.values) ELSE 0

\* Lines 504-525: the outcome of the metrics check for a fetch.
MetricOutcome(f) ==
  IF f.threw THEN "throw" ELSE IF ErrorCount(f) = 0 THEN "pass" ELSE "fail"

\* Lines 455-536.  probes records the outcome of each external call issued,
\* fetched what the metrics fetch resolved to.
VerificationOf(fn, os, f) ==
  LET checks == ChecksOf(fn, os)
  IN [success |-> AllPassed(checks),
      checks |-> checks,
      metricsImproved |-> fn # Null /\ os[3] = "pass",
      probes |-> IF fn # Null THEN os ELSE <<>>,
      fetched |-> IF fn # Null THEN f ELSE NoFetch,
      done |-> TRUE]

Verify ==
  /\ hpc = "verify"
  /\ \E h \in CheckOutcomes, t \in CheckOutcomes, f \in MetricFetches :
       LET fn == ExtractFunctionName(incident.resourceArn)
           os == <<h, t, MetricOutcome(f)>>
       IN /\ verification' = VerificationOf(fn, os, f)
          /\ failures' = failures \cup
               (IF fn # Null /\ \E i \in 1..3 : os[i] = "throw"
                  THEN {"verification"} ELSE {})
  /\ hpc' = "set_final"
  /\ UNCHANGED <<incident, incidentStore, statusWrites, diagnosis, hPlan, response,
                 execVars, audit, loopVars, planVars, callVars, libVars>>

\* Lines 157-162.
FinalStatusMut(v) == IF v.success THEN "resolved" ELSE "remediating"
FinalStatus(v) == IF v.success THEN "resolved" ELSE "failed"

SetFinalMut ==
  /\ UpdateIncidentStatus("set_final",
                          IF \A i \in DOMAIN results : results[i].success
                            THEN FinalStatus(verification) ELSE "failed",
                          "returned")
  /\ UNCHANGED execVars
SetFinal ==
  /\ UpdateIncidentStatus("set_final", FinalStatus(verification), "returned")
  /\ UNCHANGED execVars

\* handler lines 60-81: the result, or the caught error, becomes the response.
HandlerReturn ==
  /\ hpc \in {"returned", "thrown"}
  /\ hpc' = "responded"
  /\ response' = IF hpc = "returned" THEN 200 ELSE 500
  /\ UNCHANGED <<incident, incidentStore, statusWrites, diagnosis, hPlan, verification,
                 failures, execVars, audit, loopVars, planVars, callVars, libVars>>

(***************************************************************************)
(* executeAgenticWorkflow: the tool-calling loop                           *)
(***************************************************************************)
\* Text is kept as the list of its non-empty lines; "" is <<>>.
TextBlock(t)       == [kind |-> "text", text |-> t]
ToolUseBlock(i, n, inp) == [kind |-> "toolUse", toolUseId |-> i, name |-> n, input |-> inp]

\* What converse() can resolve to: no output.message, a message without
\* content, or a message with a list of content blocks.
Contents ==
  { <<>>,
    <<TextBlock("answer")>>,
    <<TextBlock("answer"), TextBlock("more")>>,
    <<TextBlock("")>>,
    <<ToolUseBlock("u1", "get_lambda_config", "in1")>>,
    <<ToolUseBlock("u1", "get_lambda_config", "in1"), ToolUseBlock("u2", "query_logs", "in2")>>,
    <<TextBlock("thinking"), ToolUseBlock("u2", "query_logs", "in2")>>,
    <<ToolUseBlock(Null, "no_such_tool", Null)>> }

Responses ==
  { [message |-> FALSE, hasContent |-> FALSE, content |-> <<>>],
    [message |-> TRUE,  hasContent |-> FALSE, content |-> <<>>] }
  \cup { [message |-> TRUE, hasContent |-> TRUE, content |-> c] : c \in Contents }

\* Lines 431-445: the ToolUse list built from the content blocks
\* (toolUseId || '', name || '', input || {}).
OrEmpty(x) == IF x = Null THEN "" ELSE x
RECURSIVE ToolUsesOf(_)
ToolUsesOf(content) ==
  IF content = <<>> THEN <<>>
  ELSE LET b == content[1]
           rest == ToolUsesOf(Tail(content))
       IN IF b.kind = "toolUse"
            THEN <<[toolUseId |-> OrEmpty(b.toolUseId), name |-> OrEmpty(b.name),
                    input |-> OrEmpty(b.input)]>> \o rest
            ELSE rest

\* extractTextFromContent: the truthy text blocks, joined by newlines.
RECURSIVE ExtractTextFromContent(_)
ExtractTextFromContent(content) ==
  IF content = <<>> THEN <<>>
  ELSE LET b == content[1]
       IN (IF b.kind = "text" /\ b.text # "" THEN <<b.text>> ELSE <<>>)
          \o ExtractTextFromContent(Tail(content))

\* Lines 459-468: every tool use gets the mock output; nothing is looked up.
MockOutput(toolUse) == [success |-> TRUE, data |-> <<"Executed", toolUse.name>>]

ToolResultsOfMut(toolUses) ==
  [i \in 1..(Len(toolUses) - 1) |->
     [toolUseId |-> toolUses[i].toolUseId, content |-> MockOutput(toolUses[i]),
      status |-> "success"]]
ToolResultsOf(toolUses) ==
  [i \in 1..Len(toolUses) |->
     [toolUseId |-> toolUses[i].toolUseId, content |-> MockOutput(toolUses[i]),
      status |-> "success"]]

ToolCallsOf(toolUses) ==
  [i \in 1..Len(toolUses) |->
     [tool |-> toolUses[i].name, input |-> toolUses[i].input,
      output |-> MockOutput(toolUses[i])]]

MsgMut(role, kind, content) == [role |-> "user", kind |-> kind, content |-> content]
Msg(role, kind, content) == [role |-> role, kind |-> kind, content |-> content]

\* String(content) of a message.
StringOf(m) == IF m.kind = "text" THEN m.content ELSE <<"[object Object]">>

\* Lines 476-478.
WorkflowCompleted == <<"Workflow completed">>
FinalResponseOf(msgs) ==
  IF msgs[Len(msgs)].role = "assistant" THEN StringOf(msgs[Len(msgs)])
  ELSE WorkflowCompleted

\* Line 411: the loop condition.
LoopContinuesMut(it, max) == it <= max
LoopContinues(it, max) == it < max

\* Line 454: the test that ends the loop on a final answer.
IsFinalAnswerMut(toolUses) == FALSE
IsFinalAnswer(toolUses) == Len(toolUses) = 0

\* One iteration of the while loop, from the converse() call to the end of the
\* body (everything after the await is synchronous).
LoopIterate ==
  /\ lpc = "loop"
  /\ LoopContinues(iterations, maxIterations)
  /\ iterations' = iterations + 1
  /\ \E r \in Responses :
       /\ responses' = Append(responses, r)
       /\ IF ~r.message \/ ~r.hasContent
            THEN \* lines 423-428: break
                 /\ lpc' = "done"
                 /\ finalResponse' = FinalResponseOf(messages)
                 /\ UNCHANGED <<messages, toolCalls>>
            ELSE LET toolUses == ToolUsesOf(r.content)
                     assistant == IF Len(toolUses) > 0
                                    THEN Msg("assistant", "toolUses", toolUses)
                                    ELSE Msg("assistant", "text",
                                             ExtractTextFromContent(r.content))
                 IN IF IsFinalAnswer(toolUses)
                      THEN /\ messages' = Append(messages, assistant)
                           /\ lpc' = "done"
                           /\ finalResponse' = FinalResponseOf(messages')
                           /\ UNCHANGED toolCalls
                      ELSE /\ toolCalls' = toolCalls \o ToolCallsOf(toolUses)
                           /\ messages' = messages \o
                                <<assistant, Msg("user", "toolResults", ToolResultsOf(toolUses))>>
                           /\ UNCHANGED <<lpc, finalResponse>>
  /\ UNCHANGED <<maxIterations, execVars, audit, incVars, planVars, callVars, libVars>>

\* converse() rejects: the error leaves executeAgenticWorkflow.
LoopConverseThrows ==
  /\ lpc = "loop"
  /\ LoopContinues(iterations, maxIterations)
  /\ iterations' = iterations + 1
  /\ lpc' = "thrown"
  /\ UNCHANGED <<maxIterations, messages, toolCalls, responses, finalResponse,
                 execVars, audit, incVars, planVars, callVars, libVars>>

\* The loop condition fails: the code after the loop runs.
LoopExhausted ==
  /\ lpc = "loop"
  /\ ~LoopContinues(iterations, maxIterations)
  /\ lpc' = "done"
  /\ finalResponse' = FinalResponseOf(messages)
  /\ UNCHANGED <<maxIterations, iterations, messages, toolCalls, responses,
                 execVars, audit, incVars, planVars, callVars, libVars>>

\* initializeTools: the registered tools and what executing one yields (the
\* collaborator's output for the input, or its error).
RegisteredTools ==
  {"get_cloudwatch_metrics", "query_logs", "get_lambda_config", "test_lambda_function"}
ToolTarget(name) ==
  CASE name = "get_cloudwatch_metrics" -> "cloudwatch.getMetrics"
    [] name = "query_logs"             -> "cloudwatch.queryLogs"
    [] name = "get_lambda_config"      -> "lambda.getFunctionConfig"
    [] name = "test_lambda_function"   -> "lambda.invokeFunction"
    [] OTHER                           -> Null
ToolOutputs(name, input) ==
  IF name \in RegisteredTools
    THEN { [from |-> ToolTarget(name), input |-> input, error |-> e] : e \in BOOLEAN }
    ELSE {}

(***************************************************************************)
(* BedrockService.planRemediation and the plan cache of DynamoDBService    *)
(***************************************************************************)
\* The item cachePlan puts in the audit table under the fixed key
\* {id: 'demo_plan_latest', timestamp: 'cache'}.
NoCache == [present |-> FALSE, plan |-> "none"]
CacheItem(pl) == [present |-> TRUE, plan |-> pl]

\* cachePlan(plan): PutCommand under the fixed key, whatever is stored there.
CachePlan(cache, pl) == CacheItem(pl)

\* What a planRemediation call did: its useCache argument, the slot it
\* found, whether the cache read completed, whether converse was called and
\* the response text it gave, and the outcome (status, plan, cached).
NoPlanResult ==
  [status |-> "none", plan |-> "none", cached |-> FALSE, useCache |-> FALSE,
   slotBefore |-> NoCache, readOk |-> FALSE, served |-> FALSE, text |-> <<>>]

\* The response text of the reasoning service, as a list of tokens.
PlanTexts ==
  { <<"prose">>,
    <<"{", "A", "}">>,
    <<"fence", "{", "B", "}", "fence">>,
    <<"{", "A">>,
    <<"{", "bad", "}">>,
    <<"{", "A", "}", "and", "{", "B", "}">> }

\* responseText.match(/\{[\s\S]*\}/): from the first "{" to the last "}".
JsonMatch(text) ==
  LET opens  == { i \in DOMAIN text : text[i] = "{" }
      closes == { i \in DOMAIN text : text[i] = "}" }
      first  == CHOOSE i \in opens : \A j \in opens : i <= j
      last   == CHOOSE i \in closes : \A j \in closes : j <= i
  IN IF opens = {} \/ closes = {} THEN <<>>
     ELSE IF first < last THEN SubSeq(text, first, last) ELSE <<>>

\* JSON.parse(jsonMatch[0]): the plan object, or "error" when it throws.
JsonParse(m) ==
  IF Len(m) = 3 /\ m[2] \in {"A", "B"} THEN m[2] ELSE "error"

\* getCachedPlan(): the plan of the item under the fixed key, or null when
\* there is none or the read throws (the catch only warns).
GetCachedPlan(cache, readOk) == IF readOk /\ cache.present THEN cache.plan ELSE "null"

\* Lines 576-582: if (useCache) { cached = getCachedPlan(); if (cached) return }
CacheHitMut(cache, useCache, readOk) == GetCachedPlan(cache, readOk) # "null"
CacheHit(cache, useCache, readOk) == useCache /\ GetCachedPlan(cache, readOk) # "null"

\* planRemediation(ctx, useCache), lines 574-616, on a cache slot: what the
\* call did and returned (result) and the slot it leaves (cache).  readOk,
\* converseOk and putOk say whether the cache read, the reasoning-service call
\* and the cache write complete; text is the service's response.
PlanRemediationCall(cache, useCache, readOk, converseOk, text, putOk) ==
  LET call == [NoPlanResult EXCEPT !.useCache = useCache, !.slotBefore = cache,
                                   !.readOk = useCache /\ readOk]
  IN IF CacheHit(cache, useCache, readOk)
       THEN [result |-> [call EXCEPT !.status = "returned", !.cached = TRUE,
                                     !.plan = GetCachedPlan(cache, readOk)],
             cache |-> cache]
       ELSE LET m  == JsonMatch(text)
                pl == IF m = <<>> THEN "error" ELSE JsonParse(m)
                served == [call EXCEPT !.served = TRUE,
                                       !.text = IF converseOk THEN text ELSE <<>>]
            IN IF ~converseOk \/ pl = "error"
                 THEN [result |-> [served EXCEPT !.status = "thrown"], cache |-> cache]
                 ELSE IF putOk
                   THEN [result |-> [served EXCEPT !.status = "returned", !.plan = pl],
                         cache |-> CachePlan(cache, pl)]
                   ELSE [result |-> [served EXCEPT !.status = "thrown"], cache |-> cache]

PlanRemediation ==
  /\ hpc = "store_api"
  /\ \E useCache \in BOOLEAN, readOk \in BOOLEAN, converseOk \in BOOLEAN,
        text \in PlanTexts, putOk \in BOOLEAN :
       LET c == PlanRemediationCall(planCache, useCache, readOk, converseOk, text, putOk)
       IN planResult' = c.result /\ planCache' = c.cache
  /\ UNCHANGED <<execVars, audit, incVars, loopVars, callVars, libVars>>

\* logAudit(entry) called with any entry, while the trail is short enough.
AuditInputs ==
  { AuditEntry(i, a, "details", "success") :
      i \in IncidentIds, a \in {<<"incident_created">>, <<"status_updated">>} }

CallLogAudit ==
  /\ hpc = "store_api"
  /\ Len(audit) < MaxAudit
  /\ \E e \in AuditInputs : audit' = LogAudit(audit, e)
  /\ UNCHANGED <<execVars, incVars, loopVars, planVars, callVars, libVars>>

\* logActionExecution(incidentId, actionId, result, details)
CallLogActionExecution ==
  /\ hpc = "store_api"
  /\ Len(audit) < MaxAudit
  /\ \E i \in IncidentIds, r \in {"success", "failure"} :
       audit' = LogAudit(audit, AuditEntry(i, <<"action_executed", 1>>, "details", r))
  /\ UNCHANGED <<execVars, incVars, loopVars, planVars, callVars, libVars>>

(***************************************************************************)
(* Specifications                                                          *)
(***************************************************************************)
ExecIdle ==
  /\ plan = NoPlan /\ epc = "idle" /\ idx = 0 /\ results = <<>>
  /\ dispatched = <<>> /\ rcCalls = <<>>

IncidentIdle ==
  /\ hpc = "idle" /\ incident = NoIncident
  /\ incidentStore = [i \in IncidentIds |-> "none"]
  /\ statusWrites = <<>> /\ diagnosis = NoDiagnosis /\ hPlan = NoPlan
  /\ verification = NoVerification /\ response = 0 /\ failures = {}

LoopIdle ==
  /\ lpc = "idle" /\ maxIterations = 0 /\ iterations = 0 /\ messages = <<>>
  /\ toolCalls = <<>> /\ responses = <<>> /\ finalResponse = <<>>

PlanIdle == planCache = NoCache /\ planResult = NoPlanResult

NoRequest == [fn |-> "none"]
NoReply == [fn |-> "none"]
CallIdle == request = NoRequest /\ reply = NoReply

\* The functions a resource ARN or a functionName argument can name.
FunctionNames == {"fn", "other-fn"}
NoProc == [pc |-> "idle", target |-> "fn", seen |-> 0, stamp |-> 0]
NoEnv == [lastRestart |-> 0, version |-> 0, writer |-> 0]
NoError == [kind |-> "none", call |-> 0]
NoRetry == [pc |-> "idle", maxRetries |-> 0, baseDelay |-> 0, attempt |-> 0, calls |-> <<>>,
            waits |-> <<>>, lastError |-> NoError, value |-> "none", error |-> NoError]
NoTest == [pc |-> "idle", payloads |-> <<>>, concurrency |-> 0, i |-> 0, batch |-> <<>>,
           batches |-> <<>>, results |-> <<>>, successful |-> 0, failed |-> 0,
           totalTests |-> -1]
NoEvent == [incidentId |-> <<"none", 0>>, resourceArn |-> Null, description |-> <<>>]
HelpersIdle == retry = NoRetry /\ test = NoTest /\ event = NoEvent
LibIdle ==
  /\ env = [f \in FunctionNames |-> NoEnv]
  /\ proc = [p \in {1, 2} |-> NoProc]
  /\ clock = 0 /\ lostUpdates = {}
  /\ HelpersIdle

\* executeRemediation called directly with any plan.
InitExec ==
  /\ plan \in InputPlans
  /\ epc = "start" /\ idx = 0 /\ results = <<>> /\ dispatched = <<>> /\ rcCalls = <<>>
  /\ audit = <<>>
  /\ hpc = "direct"
  /\ incident = [id |-> GivenId, resourceArn |-> "arn:function:fn", status |-> "open",
                 description |-> <<>>]
  /\ incidentStore = [i \in IncidentIds |-> "none"]
  /\ statusWrites = <<>> /\ diagnosis = NoDiagnosis /\ hPlan = NoPlan
  /\ verification = NoVerification /\ response = 0 /\ failures = {}
  /\ LoopIdle /\ PlanIdle /\ CallIdle /\ LibIdle

NextExec == ExecStart \/ ExecuteAction \/ LogActionExecution \/ ExecLoopEnd

SpecExec == InitExec /\ [][NextExec]_vars

\* executeRemediation called directly with a plan of up to MaxTypedActions
\* actions of any of the five action types.
MaxTypedActions == 2
TypedActionLists ==
  UNION { { [i \in 1..n |-> MkAction(i, k[i][1], k[i][2], "fn")] :
              k \in [1..n -> ActionTypes \X Orders] } : n \in 0..MaxTypedActions }

InitExecAll ==
  /\ \E a \in TypedActionLists, g \in BOOLEAN :
       plan = [id |-> <<"plan", <<"given", 1>>>>, incidentId |-> <<"given", 1>>,
               actions |-> a, safetyChecks |-> PerformSafetyChecks(a),
               approvalRequired |-> g]
  /\ epc = "start" /\ idx = 0 /\ results = <<>> /\ dispatched = <<>> /\ rcCalls = <<>>
  /\ audit = <<>>
  /\ hpc = "direct"
  /\ incident = [id |-> GivenId, resourceArn |-> "arn:function:fn", status |-> "open",
                 description |-> <<>>]
  /\ incidentStore = [i \in IncidentIds |-> "none"]
  /\ statusWrites = <<>> /\ diagnosis = NoDiagnosis /\ hPlan = NoPlan
  /\ verification = NoVerification /\ response = 0 /\ failures = {}
  /\ LoopIdle /\ PlanIdle /\ CallIdle /\ LibIdle

SpecExecAll == InitExecAll /\ [][NextExec]_vars

\* One invocation of the Lambda handler.  The Incidents table holds what
\* earlier invocations left under the id an event can carry: nothing, or a
\* record in any status (a run that threw leaves open, investigating or
\* remediating; a run that returned leaves resolved or failed).  An id the
\* handler generates from the clock is new.
Init ==
  /\ ExecIdle /\ audit = <<>> /\ LoopIdle /\ PlanIdle /\ CallIdle /\ LibIdle
  /\ hpc = "idle" /\ incident = NoIncident
  /\ \E st \in Statuses \cup {"none"} :
       incidentStore = [i \in IncidentIds |-> IF i = GivenId THEN st ELSE "none"]
  /\ statusWrites = <<>> /\ diagnosis = NoDiagnosis /\ hPlan = NoPlan
  /\ verification = NoVerification /\ response = 0 /\ failures = {}

Next ==
  \/ HandlerInvoke \/ SaveIncident \/ SetInvestigating \/ Investigate
  \/ GenerateRemediationPlan \/ SaveRemediationPlan \/ SetRemediating
  \/ CallExecuteRemediation
  \/ ExecStart \/ ExecuteAction \/ LogActionExecution \/ ExecLoopEnd
  \/ ExecuteRemediationEnds \/ Verify \/ SetFinal \/ HandlerReturn

Spec == Init /\ [][Next]_vars

\* generateRemediationPlan lines 260-271 applied to any action list: the
\* safety checks and the plan built from them.  The actions are update_config
\* actions whose memory size and timeout lie within or above the platform
\* ceilings.
MaxMemoryMB   == 3008
MaxTimeoutSec == 900
ConfigShapes ==
  { [memorySize |-> MaxMemoryMB,     timeout |-> MaxTimeoutSec],
    [memorySize |-> MaxMemoryMB + 1, timeout |-> 30],
    [memorySize |-> 512,             timeout |-> MaxTimeoutSec + 1] }

CheckedActionLists ==
  UNION { { [i \in 1..n |-> [id |-> i, type |-> "update_config", order |-> i,
                              functionName |-> "fn", memorySize |-> k[i].memorySize,
                              timeout |-> k[i].timeout]] :
              k \in [1..n -> ConfigShapes] } : n \in 0..MaxPlanLen }

InitChecks ==
  /\ ExecIdle /\ audit = <<>> /\ LoopIdle /\ PlanIdle /\ CallIdle /\ LibIdle
  /\ hpc = "checks_input"
  /\ incident = [id |-> GivenId, resourceArn |-> "arn:function:fn", status |-> "open",
                 description |-> <<>>]
  /\ incidentStore = [i \in IncidentIds |-> "none"]
  /\ statusWrites = <<>> /\ diagnosis = NoDiagnosis
  /\ \E a \in CheckedActionLists : hPlan = [NoPlan EXCEPT !.actions = a]
  /\ verification = NoVerification /\ response = 0 /\ failures = {}

ApplySafetyChecks ==
  /\ hpc = "checks_input"
  /\ hPlan' = BuildPlan(hPlan.actions, incident.id)
  /\ hpc' = "checks_done"
  /\ UNCHANGED <<incident, incidentStore, statusWrites, diagnosis, verification, response,
                 failures, execVars, audit, loopVars, planVars, callVars, libVars>>

NextChecks == ApplySafetyChecks

SpecChecks == InitChecks /\ [][NextChecks]_vars

\* The operations that write to the audit table, called directly in any order.
InitAudit ==
  /\ ExecIdle /\ audit = <<>> /\ LoopIdle /\ PlanIdle /\ CallIdle /\ LibIdle
  /\ hpc = "store_api" /\ incident = NoIncident
  /\ incidentStore = [i \in IncidentIds |-> "none"]
  /\ statusWrites = <<>> /\ diagnosis = NoDiagnosis /\ hPlan = NoPlan
  /\ verification = NoVerification /\ response = 0 /\ failures = {}

NextAudit == CallLogAudit \/ CallLogActionExecution \/ PlanRemediation

SpecAudit == InitAudit /\ [][NextAudit]_vars

\* executeAgenticWorkflow called with any maxIterations.
InitLoop ==
  /\ ExecIdle /\ audit = <<>> /\ IncidentIdle /\ PlanIdle /\ CallIdle /\ LibIdle
  /\ lpc = "loop"
  /\ maxIterations \in 0..MaxIter
  /\ iterations = 0
  /\ messages = <<Msg("user", "text", <<"prompt">>)>>
  /\ toolCalls = <<>> /\ responses = <<>> /\ finalResponse = <<>>

NextLoop == LoopIterate \/ LoopConverseThrows \/ LoopExhausted

SpecLoop == InitLoop /\ [][NextLoop]_vars

\* analyzeMetricAnomalies applied to any series of samples and any threshold.
\* With n = values.length and S their sum, the deviation of a value from the
\* mean is (n*value - S)/n and the variance is SquaredDeviations/n^3, so the
\* real z-score is compared with the threshold on integers.  The code computes
\* in IEEE doubles: the computed z-score is the real one up to rounding in the
\* last places, so the comparison comes out as in real arithmetic unless the
\* real z-score of a value off the mean equals the threshold; then rounding can
\* leave the computed z-score at the threshold or below ("down": [0,0,0,0,21]
\* gives 2) or put it above ("up": [21,0,0,0,0] gives 2.0000000000000004).
MaxSeries == 5
SampleValues == {0, 1, 2, 10, 21}
Thresholds == {-1, 0, 1, 2}
Roundings == {"down", "up"}
MetricSeries == UNION { [1..n -> SampleValues] : n \in 0..MaxSeries }

\* Line 458: metricData.values.length < 3
TooShortMut(values) == Len(values) < 2
TooShort(values) == Len(values) < 3

\* Lines 462-463, scaled by n^3: the sum of the squared deviations from the mean.
RECURSIVE SumSquares(_, _, _)
SumSquares(values, n, s) ==
  IF values = <<>> THEN 0
  ELSE (n * values[1] - s) * (n * values[1] - s) + SumSquares(Tail(values), n, s)
SquaredDeviations(values) == SumSquares(values, Len(values), Reduce(values))

\* Lines 468 and 475: zscore > threshold, where zscore is 0 when stdDev is 0
\* and |value - mean| / stdDev otherwise.
ZScoreExceedsMut(values, i, threshold, rounding) ==
  LET n   == Len(values)
      dev == n * values[i] - Reduce(values)
  IN threshold < 0 \/ dev * dev > threshold * threshold
ZScoreExceeds(values, i, threshold, rounding) ==
  LET n   == Len(values)
      dev == n * values[i] - Reduce(values)
      ssq == SquaredDeviations(values)
  IN IF ssq = 0
       THEN 0 > threshold
       ELSE \/ threshold < 0
            \/ n * dev * dev > threshold * threshold * ssq
            \/ /\ dev # 0 /\ n * dev * dev = threshold * threshold * ssq
               /\ rounding = "up"

\* Lines 451-481.
AnalyzeMetricAnomalies(values, threshold, rounding) ==
  IF TooShort(values)
    THEN [fn |-> "analyzeMetricAnomalies", hasAnomaly |-> FALSE, anomalies |-> <<>>]
    ELSE LET items == [i \in 1..Len(values) |-> [index |-> i, value |-> values[i]]]
             Flagged(item) == ZScoreExceeds(values, item.index, threshold, rounding)
             anomalies == SelectSeq(items, Flagged)
         IN [fn |-> "analyzeMetricAnomalies",
             hasAnomaly |-> Len(anomalies) > 0,
             anomalies |-> anomalies]

AnalyzeRequest(values, threshold) ==
  [fn |-> "analyzeMetricAnomalies", values |-> values, threshold |-> threshold]

InitAnomaly ==
  /\ ExecIdle /\ audit = <<>> /\ LoopIdle /\ PlanIdle
  /\ hpc = "anomaly_input" /\ incident = NoIncident
  /\ incidentStore = [i \in IncidentIds |-> "none"]
  /\ statusWrites = <<>> /\ diagnosis = NoDiagnosis /\ hPlan = NoPlan
  /\ verification = NoVerification /\ response = 0 /\ failures = {}
  /\ \E values \in MetricSeries, threshold \in Thresholds :
       request = AnalyzeRequest(values, threshold)
  /\ reply = NoReply /\ LibIdle

CallAnalyzeMetricAnomalies ==
  /\ hpc = "anomaly_input"
  /\ \E rounding \in Roundings :
       reply' = AnalyzeMetricAnomalies(request.values, request.threshold, rounding)
  /\ hpc' = "anomaly_done"
  /\ UNCHANGED <<incident, incidentStore, statusWrites, diagnosis, hPlan, verification,
                 response, failures, execVars, audit, loopVars, planVars, request, libVars>>

NextAnomaly == CallAnalyzeMetricAnomalies

SpecAnomaly == InitAnomaly /\ [][NextAnomaly]_vars

\* parseRemediationActions applied to any narrative of up to MaxWords words
\* and any resource ARN.
MaxWords == 2
PlanTextInputs == UNION { [1..n -> Words] : n \in 0..MaxWords }

InitClassify ==
  /\ ExecIdle /\ audit = <<>> /\ LoopIdle /\ PlanIdle
  /\ hpc = "classify_input"
  /\ \E arn \in Arns : incident = [id |-> GivenId, resourceArn |-> arn, status |-> "open",
                                description |-> <<>>]
  /\ incidentStore = [i \in IncidentIds |-> "none"]
  /\ statusWrites = <<>> /\ diagnosis = NoDiagnosis /\ hPlan = NoPlan
  /\ verification = NoVerification /\ response = 0 /\ failures = {}
  /\ \E planText \in PlanTextInputs : request = ParseRequest(planText, incident)
  /\ reply = NoReply /\ LibIdle

CallParseRemediationActions ==
  /\ hpc = "classify_input"
  /\ reply' = [fn |-> "parseRemediationActions",
               actions |-> ParseRemediationActions(request.planText, incident)]
  /\ hpc' = "classify_done"
  /\ UNCHANGED <<incident, incidentStore, statusWrites, diagnosis, hPlan, verification,
                 response, failures, execVars, audit, loopVars, planVars, request, libVars>>

NextClassify == CallParseRemediationActions

SpecClassify == InitClassify /\ [][NextClassify]_vars

\* handleIncident lines 145-149: investigate, then generateRemediationPlan,
\* for an incident with any description and resource ARN.
InitPlan ==
  /\ ExecIdle /\ audit = <<>> /\ LoopIdle /\ PlanIdle /\ CallIdle /\ LibIdle
  /\ hpc = "investigate"
  /\ \E arn \in Arns, description \in Descriptions :
       incident = [id |-> GivenId, resourceArn |-> arn, status |-> "investigating",
                   description |-> description]
  /\ incidentStore = [i \in IncidentIds |-> IF i = GivenId THEN "investigating" ELSE "none"]
  /\ statusWrites = <<>> /\ diagnosis = NoDiagnosis /\ hPlan = NoPlan
  /\ verification = NoVerification /\ response = 0 /\ failures = {}

NextPlan == Investigate \/ GenerateRemediationPlan

SpecPlan == InitPlan /\ [][NextPlan]_vars

\* runIncident(incidentText, functionName, region): gather the function
\* configuration, the metrics and the error logs, ask planRemediation(context,
\* true) for a plan, apply the plan's lambda changes, fetch the metrics again.
\* It holds no Incident record and calls neither the incident store nor
\* logAudit; whatever a step throws rejects the call.
\* Plan "A" stands for an ActionPlan with changes.lambda.memoryMb, plan "B"
\* for one without changes.lambda.
HasLambdaChanges(pl) == pl = "A"
ParseError(text) == JsonMatch(text) = <<>> \/ JsonParse(JsonMatch(text)) = "error"

RunRequest(functionName) == [fn |-> "runIncident", functionName |-> functionName]

InitRun ==
  /\ ExecIdle /\ audit = <<>> /\ LoopIdle
  /\ \E functionName \in FunctionNames : request = RunRequest(functionName)
  /\ reply = NoReply /\ LibIdle
  /\ hpc = "run_gather" /\ incident = NoIncident
  /\ incidentStore = [i \in IncidentIds |-> "none"]
  /\ statusWrites = <<>> /\ diagnosis = NoDiagnosis /\ hPlan = NoPlan
  /\ verification = NoVerification /\ response = 0 /\ failures = {}
  /\ planCache \in {NoCache, CacheItem("A"), CacheItem("B")}
  /\ planResult = NoPlanResult

\* Lines 121-144: getFunctionConfiguration, getMetrics x3, queryLogs.
RunGather ==
  /\ hpc = "run_gather"
  /\ \E o \in {"config_throws", "metrics_throw", "logs_throw", "ok"} :
       /\ rcCalls' = Append(rcCalls, RcCall("get", request.functionName, o # "config_throws"))
       /\ hpc' = IF o = "ok" THEN "run_plan" ELSE "run_thrown"
       /\ failures' = CASE o = "config_throws" -> failures \cup {"config"}
                        [] o = "metrics_throw" -> failures \cup {"telemetry"}
                        [] o = "logs_throw"    -> failures \cup {"logs"}
                        [] OTHER               -> failures
  /\ UNCHANGED <<plan, epc, idx, results, dispatched, audit, incident, incidentStore,
                 statusWrites, diagnosis, hPlan, verification, response, loopVars,
                 planVars, callVars, libVars>>

\* Line 161: const { plan } = await bedrock.planRemediation(context, true)
RunPlan ==
  /\ hpc = "run_plan"
  /\ \E readOk \in BOOLEAN, converseOk \in BOOLEAN, text \in PlanTexts, putOk \in BOOLEAN :
       LET c == PlanRemediationCall(planCache, TRUE, readOk, converseOk, text, putOk)
       IN /\ planResult' = c.result /\ planCache' = c.cache
          /\ hpc' = IF c.result.status = "returned" THEN "run_apply" ELSE "run_thrown"
          /\ failures' =
               IF c.result.status = "returned" THEN failures
               ELSE IF c.result.served /\ converseOk /\ ParseError(text)
                 THEN failures \cup {"parse"}
                 ELSE failures \cup {"plan"}
  /\ UNCHANGED <<execVars, audit, incident, incidentStore, statusWrites, diagnosis, hPlan,
                 verification, response, loopVars, callVars, libVars>>

\* Lines 163-181: updateFunctionConfiguration when the plan changes something.
RunApply ==
  /\ hpc = "run_apply"
  /\ IF HasLambdaChanges(planResult.plan)
       THEN \E ok \in BOOLEAN :
              /\ rcCalls' = Append(rcCalls, RcCall("update", request.functionName, ok))
              /\ hpc' = IF ok THEN "run_after" ELSE "run_thrown"
              /\ failures' = IF ok THEN failures ELSE failures \cup {"action"}
       ELSE hpc' = "run_after" /\ UNCHANGED <<rcCalls, failures>>
  /\ UNCHANGED <<plan, epc, idx, results, dispatched, audit, incident, incidentStore,
                 statusWrites, diagnosis, hPlan, verification, response, loopVars,
                 planVars, callVars, libVars>>

\* Lines 183-204: the "after" metrics, then the return.
RunAfter ==
  /\ hpc = "run_after"
  /\ \E ok \in BOOLEAN :
       /\ hpc' = IF ok THEN "run_returned" ELSE "run_thrown"
       /\ failures' = IF ok THEN failures ELSE failures \cup {"telemetry"}
  /\ UNCHANGED <<execVars, audit, incident, incidentStore, statusWrites, diagnosis, hPlan,
                 verification, response, loopVars, planVars, callVars, libVars>>

NextRun == RunGather \/ RunPlan \/ RunApply \/ RunAfter

SpecRun == InitRun /\ [][NextRun]_vars

\* Two incidents handled by concurrent invocations of the handler, each at
\* the restart_service action of its plan (executeAction lines 420-430): read
\* the function's configuration, set LAST_RESTART in the environment map read,
\* write the whole map back.  Nothing orders the calls of the two invocations.
Procs == {1, 2}

\* GetFunctionConfigurationCommand / UpdateFunctionConfigurationCommand address
\* the configuration by FunctionName.
ConfigKeyMut(functionName) == "fn"
ConfigKey(functionName) == functionName

InitRace ==
  /\ ExecIdle /\ audit = <<>> /\ LoopIdle /\ PlanIdle /\ CallIdle
  /\ hpc = "concurrent" /\ incident = NoIncident
  /\ incidentStore = [i \in IncidentIds |-> "none"]
  /\ statusWrites = <<>> /\ diagnosis = NoDiagnosis /\ hPlan = NoPlan
  /\ verification = NoVerification /\ response = 0 /\ failures = {}
  /\ env = [f \in FunctionNames |-> NoEnv]
  /\ \E t \in [Procs -> FunctionNames] :
       proc = [p \in Procs |-> [NoProc EXCEPT !.pc = "get", !.target = t[p]]]
  /\ clock = 0 /\ lostUpdates = {}
  /\ HelpersIdle

\* Line 422: config = await this.lambda.getFunctionConfig(functionName)
RestartGet(p) ==
  /\ proc[p].pc = "get"
  /\ \E ok \in BOOLEAN :
       proc' = [proc EXCEPT ![p].pc = IF ok THEN "stamp" ELSE "failed",
                            ![p].seen = IF ok THEN env[ConfigKey(proc[p].target)].version
                                        ELSE 0]
  /\ UNCHANGED <<env, clock, lostUpdates>>

\* Lines 423-424: env = config.Environment?.Variables || {};
\* env['LAST_RESTART'] = new Date().toISOString()
RestartStamp(p) ==
  /\ proc[p].pc = "stamp"
  /\ clock' = clock + 1
  /\ proc' = [proc EXCEPT ![p].pc = "update", ![p].stamp = clock + 1]
  /\ UNCHANGED <<env, lostUpdates>>

\* Lines 425-428: updateFunctionConfig(functionName, {environment: env})
RestartUpdate(p) ==
  /\ proc[p].pc = "update"
  /\ \E ok \in BOOLEAN :
       LET k == ConfigKey(proc[p].target)
       IN IF ok
            THEN /\ env' = [env EXCEPT ![k] = [lastRestart |-> proc[p].stamp,
                                               version |-> @.version + 1,
                                               writer |-> p]]
                 /\ lostUpdates' =
                      IF env[k].version # proc[p].seen
                        THEN lostUpdates \cup {[by |-> p, of |-> env[k].writer,
                                                overwritten |-> env[k].lastRestart,
                                                with |-> proc[p].stamp]}
                        ELSE lostUpdates
                 /\ proc' = [proc EXCEPT ![p].pc = "done"]
            ELSE /\ proc' = [proc EXCEPT ![p].pc = "failed"]
                 /\ UNCHANGED <<env, lostUpdates>>
  /\ UNCHANGED clock

NextRace ==
  /\ \E p \in Procs : RestartGet(p) \/ RestartStamp(p) \/ RestartUpdate(p)
  /\ UNCHANGED <<execVars, audit, incVars, loopVars, planVars, callVars, retry, test, event>>

SpecRace == InitRace /\ [][NextRace]_vars

\* retryWithBackoff(fn, maxRetries, baseDelay) called with any maxRetries up
\* to MaxRetries.  A call of fn resolves, rejects with an Error, or rejects
\* with a value that is not an Error (wrapped by new Error(String(error))).
MaxRetries == 3
BaseDelays == {500, 1000}
FnOutcomes == {"resolves", "throws_error", "throws_value"}

RECURSIVE Pow2(_)
Pow2(k) == IF k = 0 THEN 1 ELSE 2 * Pow2(k - 1)

\* Line 118: delay = baseDelay * Math.pow(2, attempt)
BackoffDelayMut(baseDelay, attempt) == baseDelay * Pow2(attempt + 1)
BackoffDelay(baseDelay, attempt) == baseDelay * Pow2(attempt)

otherLibVars == <<env, proc, clock, lostUpdates, test, event>>

InitRetry ==
  /\ ExecIdle /\ audit = <<>> /\ LoopIdle /\ PlanIdle /\ CallIdle
  /\ hpc = "retry" /\ incident = NoIncident
  /\ incidentStore = [i \in IncidentIds |-> "none"]
  /\ statusWrites = <<>> /\ diagnosis = NoDiagnosis /\ hPlan = NoPlan
  /\ verification = NoVerification /\ response = 0 /\ failures = {}
  /\ env = [f \in FunctionNames |-> NoEnv] /\ proc = [p \in {1, 2} |-> NoProc]
  /\ clock = 0 /\ lostUpdates = {} /\ test = NoTest /\ event = NoEvent
  /\ \E m \in 0..MaxRetries, d \in BaseDelays :
       retry = [NoRetry EXCEPT !.pc = "loop", !.maxRetries = m, !.baseDelay = d]

\* Lines 111-117: the loop test, the call of fn and the catch.
RetryAttempt ==
  /\ retry.pc = "loop"
  /\ retry.attempt < retry.maxRetries
  /\ \E o \in FnOutcomes :
       LET called == [retry EXCEPT !.calls = Append(@, o)]
           err == [kind |-> IF o = "throws_error" THEN "Error" ELSE "String",
                   call |-> Len(called.calls)]
       IN retry' =
            IF o = "resolves"
              THEN [called EXCEPT !.pc = "returned", !.value = "value"]
              ELSE IF retry.attempt < retry.maxRetries - 1
                THEN [called EXCEPT !.lastError = err, !.pc = "wait"]
                ELSE [called EXCEPT !.lastError = err, !.attempt = @ + 1]
  /\ UNCHANGED <<execVars, audit, incVars, loopVars, planVars, callVars, otherLibVars>>

\* Lines 118-119 and 111: the timer, then attempt++.
RetryWait ==
  /\ retry.pc = "wait"
  /\ retry' = [retry EXCEPT !.waits = Append(@, BackoffDelay(retry.baseDelay, retry.attempt)),
                            !.attempt = @ + 1, !.pc = "loop"]
  /\ UNCHANGED <<execVars, audit, incVars, loopVars, planVars, callVars, otherLibVars>>

\* Lines 111, 124: the loop test fails; throw lastError || new Error('Retry failed')
RetryExhausted ==
  /\ retry.pc = "loop"
  /\ ~(retry.attempt < retry.maxRetries)
  /\ retry' = [retry EXCEPT !.pc = "rejected",
                            !.error = IF retry.lastError = NoError
                                        THEN [kind |-> "Retry failed", call |-> 0]
                                        ELSE retry.lastError]
  /\ UNCHANGED <<execVars, audit, incVars, loopVars, planVars, callVars, otherLibVars>>

NextRetry == RetryAttempt \/ RetryWait \/ RetryExhausted

SpecRetry == InitRetry /\ [][NextRetry]_vars

\* LambdaService.testFunction(functionName, testPayloads, concurrency) with up
\* to MaxPayloads payloads, numbered in order, and any concurrency from 0 to
\* one more than that.  An invocation answers 200 without a function error,
\* answers with a function error, or throws.
MaxPayloads == 3
InvokeOutcomes == {"ok", "function_error", "throws"}

\* Array.prototype.slice(from, to) on whole arguments 0 <= from <= to.
SliceMut(s, from, to) ==
  SubSeq(s, from + 1, IF to + 1 < Len(s) THEN to + 1 ELSE Len(s))
Slice(s, from, to) ==
  SubSeq(s, from + 1, IF to < Len(s) THEN to ELSE Len(s))

Successes(rs) == Cardinality({k \in DOMAIN rs : rs[k].success})

testIdleVars == <<env, proc, clock, lostUpdates, retry, event>>

InitTest ==
  /\ ExecIdle /\ audit = <<>> /\ LoopIdle /\ PlanIdle /\ CallIdle
  /\ hpc = "test" /\ incident = NoIncident
  /\ incidentStore = [i \in IncidentIds |-> "none"]
  /\ statusWrites = <<>> /\ diagnosis = NoDiagnosis /\ hPlan = NoPlan
  /\ verification = NoVerification /\ response = 0 /\ failures = {}
  /\ env = [f \in FunctionNames |-> NoEnv] /\ proc = [p \in {1, 2} |-> NoProc]
  /\ clock = 0 /\ lostUpdates = {} /\ retry = NoRetry /\ event = NoEvent
  /\ \E n \in 0..MaxPayloads, c \in 0..(MaxPayloads + 1) :
       test = [NoTest EXCEPT !.pc = "loop", !.payloads = [k \in 1..n |-> k],
                             !.concurrency = c]

\* Lines 113-114: the loop test and the slice of the next batch.
TestBatch ==
  /\ test.pc = "loop"
  /\ test.i < Len(test.payloads)
  /\ test' = [test EXCEPT !.pc = "batch",
                          !.batch = Slice(test.payloads, test.i, test.i + test.concurrency)]
  /\ UNCHANGED <<execVars, audit, incVars, loopVars, planVars, callVars, testIdleVars>>

\* Lines 115-139 and the increment of line 113: every invocation of the batch
\* settles, the counters are bumped, the results are pushed in batch order.
\* batches records the sizes of the batches that invoked something.
TestSettle ==
  /\ test.pc = "batch"
  /\ \E os \in [DOMAIN test.batch -> InvokeOutcomes] :
       LET batchResults == [k \in DOMAIN test.batch |->
                              [payload |-> test.batch[k], success |-> os[k] = "ok"]]
           good == Successes(batchResults)
       IN test' = [test EXCEPT !.pc = "loop",
                               !.successful = @ + good,
                               !.failed = @ + (Len(test.batch) - good),
                               !.results = @ \o batchResults,
                               !.batches = IF test.batch = <<>> THEN @
                                           ELSE Append(@, Len(test.batch)),
                               !.batch = <<>>,
                               !.i = @ + test.concurrency]
  /\ UNCHANGED <<execVars, audit, incVars, loopVars, planVars, callVars, testIdleVars>>

\* Lines 113, 142-147: the loop test fails and the summary is returned.
TestReturn ==
  /\ test.pc = "loop"
  /\ ~(test.i < Len(test.payloads))
  /\ test' = [test EXCEPT !.pc = "returned", !.totalTests = Len(test.payloads)]
  /\ UNCHANGED <<execVars, audit, incVars, loopVars, planVars, callVars, testIdleVars>>

NextTest == TestBatch \/ TestSettle \/ TestReturn

SpecTest == InitTest /\ [][NextTest]_vars

\* Every awaited invocation settles and the loop goes on.
SpecTestLive == SpecTest /\ WF_vars(NextTest)

(***************************************************************************)
(* Properties                                                              *)
(***************************************************************************)
IsActionAudit(e) == e.action[1] = "action_executed"

\* C1: once executeRemediation has acted on a plan whose approvalRequired is
\* true it has returned, with an empty result list, having dispatched no action,
\* issued no call to the resource controller and written no action-execution
\* audit entry.
C1_GatedPlanRunsNothing ==
  (plan.approvalRequired /\ epc # "start") =>
    /\ epc = "done"
    /\ results = <<>>
    /\ dispatched = <<>>
    /\ rcCalls = <<>>
    /\ \A i \in DOMAIN audit : ~IsActionAudit(audit[i])

C1_Witness ==
  /\ plan.approvalRequired /\ epc = "done" /\ Len(plan.actions) >= 2
  /\ \E i \in DOMAIN plan.actions : plan.actions[i].type = "update_config"

\* C2: for an ungated plan the results are the outcomes of the actions in
\* ascending order up to and including the first failure: result i belongs to
\* the i-th action in order, every result before the last is a success, the
\* dispatched actions are exactly those with a result (plus the one in
\* flight), and on return either the last result is a failure or every action
\* has a result.
SortedByOrder(s) == \A i, j \in DOMAIN s : i < j => s[i].order <= s[j].order

C2_HaltsAtFirstFailure ==
  (~plan.approvalRequired /\ epc # "start") =>
    /\ SortedByOrder(plan.actions)
    /\ Len(results) <= Len(plan.actions)
    /\ \A i \in DOMAIN results : results[i].actionId = plan.actions[i].id
    /\ \A i \in DOMAIN results : i < Len(results) => results[i].success
    /\ dispatched = [i \in DOMAIN results |-> results[i].actionId]
    /\ epc = "done" =>
         \/ results # <<>> /\ ~results[Len(results)].success
         \/ Len(results) = Len(plan.actions)

C2_Witness ==
  /\ epc = "done" /\ ~plan.approvalRequired
  /\ Len(plan.actions) = 3 /\ Len(results) = 2
  /\ plan.actions[1].order = 1 /\ plan.actions[2].order = 2 /\ plan.actions[3].order = 3
  /\ results[1].success /\ ~results[2].success

\* C3: the plan generateRemediationPlan returns has approvalRequired true
\* exactly when one of its safety checks has passed = false.
C3_ApprovalIffCheckFailed ==
  hPlan.approvalRequired <=>
    \E i \in DOMAIN hPlan.safetyChecks : ~hPlan.safetyChecks[i].passed

C3_Witness ==
  /\ hpc = "save_plan" /\ Len(hPlan.actions) = 2 /\ Len(hPlan.safetyChecks) = 3

HasContent(r) == r.message /\ r.hasContent
HasToolUse(r) == HasContent(r) /\ ToolUsesOf(r.content) # <<>>

\* C4: the reasoning service is never called more than maxIterations times,
\* and when every response requested a tool the workflow returns after exactly
\* maxIterations calls with iterations = maxIterations.
C4_AlwaysToolCallStopsAtMax ==
  /\ Len(responses) <= maxIterations
  /\ iterations <= maxIterations
  /\ (lpc = "done" /\ \A i \in DOMAIN responses : HasToolUse(responses[i])) =>
       /\ Len(responses) = maxIterations
       /\ iterations = maxIterations

C4_Witness ==
  /\ lpc = "done" /\ maxIterations >= 2 /\ iterations = maxIterations
  /\ Len(responses) = maxIterations
  /\ \A i \in DOMAIN responses : HasToolUse(responses[i])

OneToolUse(r) == HasContent(r) /\ Len(ToolUsesOf(r.content)) = 1
PlainText(r)  == HasContent(r) /\ ToolUsesOf(r.content) = <<>>

\* The run of C5: one tool request, then plain text.
ToolThenText ==
  (lpc = "done" /\ Len(responses) = 2 /\ OneToolUse(responses[1]) /\ PlainText(responses[2])) =>
    /\ iterations = 2
    /\ Len(toolCalls) = 1
    /\ toolCalls[1].tool = ToolUsesOf(responses[1].content)[1].name
    /\ finalResponse = ExtractTextFromContent(responses[2].content)

\* C5 as stated: one tool request then plain text ends after 2 iterations with
\* one recorded tool call and that text as final response; and every response
\* with zero tool requests is appended as an assistant turn and ends the loop
\* at that iteration.
C5_Original ==
  /\ ToolThenText
  /\ \A i \in DOMAIN responses :
       ~HasToolUse(responses[i]) =>
         /\ i = Len(responses) /\ lpc = "done" /\ iterations = i
         /\ messages[Len(messages)].role = "assistant"

\* C5 amended: the same, where only a response that carries content (with zero
\* tool requests) is appended as the assistant turn, which is then the final
\* response; a response without message or content ends the loop at that
\* iteration and appends nothing.
C5_TextEndsLoop ==
  /\ ToolThenText
  /\ \A i \in DOMAIN responses :
       ~HasToolUse(responses[i]) =>
         /\ i = Len(responses) /\ lpc = "done" /\ iterations = i
         /\ IF HasContent(responses[i])
              THEN /\ messages[Len(messages)] =
                        Msg("assistant", "text", ExtractTextFromContent(responses[i].content))
                   /\ finalResponse = ExtractTextFromContent(responses[i].content)
              ELSE /\ messages[Len(messages)].role = "user"
                   /\ Len(messages) = 2 * (i - 1) + 1

C5_Witness ==
  /\ lpc = "done" /\ Len(responses) = 2
  /\ OneToolUse(responses[1]) /\ PlainText(responses[2])
  /\ Len(toolCalls) = 1 /\ iterations = 2
  /\ finalResponse = <<"answer">>

\* C6: every user turn carrying tool results directly follows an assistant
\* turn carrying tool requests, has as many results as that turn has requests,
\* and the same set of invocation identifiers.
C6_ResultsPairRequests ==
  \A i \in DOMAIN messages :
    messages[i].kind = "toolResults" =>
      /\ i > 1
      /\ messages[i].role = "user"
      /\ messages[i - 1].role = "assistant"
      /\ messages[i - 1].kind = "toolUses"
      /\ Len(messages[i].content) = Len(messages[i - 1].content)
      /\ { messages[i].content[k].toolUseId : k \in DOMAIN messages[i].content } =
         { messages[i - 1].content[k].toolUseId : k \in DOMAIN messages[i - 1].content }

C6_Witness ==
  \E i \in DOMAIN messages :
    /\ messages[i].kind = "toolResults" /\ Len(messages[i].content) = 2
    /\ messages[i].content[1].toolUseId # messages[i].content[2].toolUseId

\* The last assistant turn of a conversation that has one.
HasAssistant(msgs) == \E i \in DOMAIN msgs : msgs[i].role = "assistant"
LastAssistant(msgs) ==
  msgs[CHOOSE i \in DOMAIN msgs :
         /\ msgs[i].role = "assistant"
         /\ \A j \in DOMAIN msgs : msgs[j].role = "assistant" => j <= i]

\* C7: when maxIterations is exhausted and every response requested a tool,
\* the final response is the content of the last assistant turn.
C7_ExhaustedReturnsLastAssistant ==
  ( /\ lpc = "done" /\ Len(responses) = maxIterations
    /\ \A i \in DOMAIN responses : HasToolUse(responses[i])
    /\ HasAssistant(messages) ) =>
      finalResponse = StringOf(LastAssistant(messages))

\* C8: every recorded tool call names a registered tool and its output is an
\* output (or error) of executing that tool on the recorded input.
C8_ToolCallsAreToolOutputs ==
  \A i \in DOMAIN toolCalls :
    /\ toolCalls[i].tool \in RegisteredTools
    /\ toolCalls[i].output \in ToolOutputs(toolCalls[i].tool, toolCalls[i].input)

\* C9: the statuses a run writes to the incident store are, in order, open,
\* investigating, remediating and then resolved or failed, with none skipped
\* or repeated; a run that returns normally has written all four.
Lifecycle == <<"open", "investigating", "remediating">>
C9_StatusLifecycle ==
  /\ Len(statusWrites) <= Len(Lifecycle) + 1
  /\ \A i \in DOMAIN statusWrites :
       IF i <= Len(Lifecycle) THEN statusWrites[i] = Lifecycle[i]
       ELSE statusWrites[i] \in {"resolved", "failed"}
  /\ statusWrites # <<>> => incidentStore[incident.id] = statusWrites[Len(statusWrites)]
  /\ (hpc = "returned" \/ (hpc = "responded" /\ response = 200 /\ incident # NoIncident)) =>
       Len(statusWrites) = Len(Lifecycle) + 1

C9_Witness ==
  /\ hpc = "returned"
  /\ statusWrites = <<"open", "investigating", "remediating", "failed">>

\* C10: a stored status of resolved or failed is never changed by any step.
C10_TerminalImmutable ==
  [][\A id \in IncidentIds :
       incidentStore[id] \in {"resolved", "failed"} => incidentStore'[id] = incidentStore[id]]_vars

\* C11: when the reasoning-service call made for diagnosis fails, no plan is
\* generated, no action is executed and no verification runs, and once the
\* run has ended the incident's stored status is failed.
C11_DiagnosisFailureMarksFailed ==
  ("diagnosis" \in failures) =>
    /\ hPlan = NoPlan /\ epc = "idle" /\ dispatched = <<>> /\ ~verification.done
    /\ hpc = "responded" => incidentStore[incident.id] = "failed"

\* C12: when an action of the Execute phase of handleIncident has failed, the
\* pipeline halts (no verification runs) and once the run has ended the
\* incident's stored status is failed (runs in which no store call failed).
C12_ActionFailureIsFatal ==
  (hpc # "direct" /\ "store" \notin failures /\ \E i \in DOMAIN results : ~results[i].success) =>
    /\ ~verification.done
    /\ hpc = "responded" => incidentStore[incident.id] = "failed"

\* An audit entry of the incident with result = failure about the failure f.
AuditedFailure(f) ==
  \E i \in DOMAIN audit :
    /\ audit[i].incidentId = incident.id
    /\ audit[i].result = "failure"
    /\ audit[i].detail = f
AuditedActionFailure(id) ==
  \E i \in DOMAIN audit :
    /\ audit[i].incidentId = incident.id
    /\ audit[i].result = "failure"
    /\ audit[i].action = <<"action_executed", id>>

\* C13: every failure of a telemetry fetch, the diagnosis call, plan
\* generation or a verification check has an audit entry of the incident with
\* result = failure, and so has every failed action once its logging step is
\* over.
C13_FailuresAreAudited ==
  hpc # "direct" =>
    /\ \A f \in failures \cap {"telemetry", "diagnosis", "plan", "verification"} :
         AuditedFailure(f)
    /\ \A k \in DOMAIN results :
         (~results[k].success /\ (k < Len(results) \/ epc # "log")) =>
           AuditedActionFailure(results[k].actionId)

\* What an append leaves alone: every entry of the trail is still there,
\* unchanged, and every new entry has an id no earlier entry has.
TrailOnlyGrows ==
  /\ Len(audit') >= Len(audit)
  /\ \A i \in DOMAIN audit : audit'[i] = audit[i]
  /\ \A i \in DOMAIN audit' : \A j \in DOMAIN audit : i # j => audit'[i].id # audit[j].id

\* C15 as stated: every operation that writes to the audit table only adds an
\* item under a fresh identifier; no item written earlier is overwritten,
\* changed or deleted.
C15_Original ==
  [][TrailOnlyGrows /\ (planCache.present => planCache' = planCache)]_vars

\* C15 amended: the audit entries are append-only (logAudit and
\* logActionExecution add an entry under a fresh id and nothing overwrites,
\* changes or deletes an entry), while the plan cache item kept in the same
\* table under its fixed key is replaced by each cachePlan.
C15_AuditEntriesAppendOnly ==
  [][TrailOnlyGrows /\ (planCache' # planCache => planCache'.present)]_vars

C15_Witness ==
  /\ Len(audit) = 2 /\ audit[1].id # audit[2].id
  /\ audit[2].action[1] = "action_executed"
  /\ planResult.status = "returned" /\ ~planResult.cached
  /\ planCache = CacheItem("B")

\* The step of handleIncident an audit entry is written in: lines 135-137
\* (save incident), 139-141 (step 1), 143-146 (step 2), 148-151 (step 3),
\* 153-162 (step 4).
AuditStep(e) ==
  CASE e.action = <<"incident_created">>                                -> "intake"
    [] e.action = <<"status_updated">> /\ e.detail = "investigating"    -> "intake"
    [] e.action = <<"diagnosis_completed">>                             -> "investigate"
    [] e.action = <<"plan_created">>                                    -> "plan"
    [] e.action = <<"status_updated">> /\ e.detail = "remediating"      -> "execute"
    [] e.action[1] = "action_executed"                                  -> "execute"
    [] e.action = <<"status_updated">> /\ e.detail \in {"resolved", "failed"} -> "verify"
    [] OTHER                                                            -> "none"

StepAudited(step, from) ==
  { i \in DOMAIN audit : i > from /\ audit[i].incidentId = incident.id
                          /\ AuditStep(audit[i]) = step }

\* C14: when handleIncident has returned, the audit trail of the incident
\* holds, in this order, an entry written by the investigate step, one by the
\* plan step, one by the execute step and one by the verify step.
C14_EachPhaseAudits ==
  hpc = "returned" =>
    \E i1 \in StepAudited("investigate", 0) :
      \E i2 \in StepAudited("plan", i1) :
        \E i3 \in StepAudited("execute", i2) :
          StepAudited("verify", i3) # {}

C14_Witness ==
  /\ hpc = "returned"
  /\ verification.done /\ verification.checks = <<>>
  /\ \E i \in DOMAIN audit : audit[i].action = <<"plan_created">>
  /\ \E i \in DOMAIN audit : AuditStep(audit[i]) = "verify"

FirstAudit(act) == CHOOSE i \in DOMAIN audit : audit[i].action = act
HasAudit(act) == \E i \in DOMAIN audit : audit[i].action = act

\* C16: within a run of handleIncident the diagnosis is complete before a plan
\* exists, the plan with its three safety checks is built and saved before
\* executeRemediation is entered or any action is dispatched, executeRemediation
\* runs only while handleIncident waits for it, and verification runs only
\* after executeRemediation has ended with every dispatched action finished
\* and logged.
C16_PhasesSequential ==
  hpc # "direct" =>
    /\ hPlan # NoPlan =>
         /\ diagnosis # NoDiagnosis
         /\ HasAudit(<<"diagnosis_completed">>)
    /\ (epc # "idle" \/ dispatched # <<>> \/ rcCalls # <<>>) =>
         /\ hPlan # NoPlan /\ Len(hPlan.safetyChecks) = 3
         /\ HasAudit(<<"plan_created">>)
         /\ FirstAudit(<<"diagnosis_completed">>) < FirstAudit(<<"plan_created">>)
         /\ \A i \in DOMAIN audit :
              IsActionAudit(audit[i]) => FirstAudit(<<"plan_created">>) < i
    /\ epc # "idle" => hpc = "executing"
    /\ verification.done =>
         /\ epc = "idle"
         /\ Len(results) = Len(dispatched)
         /\ Cardinality({ i \in DOMAIN audit : IsActionAudit(audit[i]) }) = Len(results)

C16_Witness ==
  /\ hpc = "returned" /\ Len(results) = 2 /\ Len(dispatched) = 2
  /\ Len(verification.checks) = 3
  /\ HasAudit(<<"diagnosis_completed">>) /\ HasAudit(<<"plan_created">>)

CheckNamed(p, t) == p.safetyChecks[CHOOSE i \in DOMAIN p.safetyChecks : p.safetyChecks[i].type = t]

\* C17: the rate_limit check of a built plan passes exactly when the plan has
\* at most 5 actions, and a plan of 6 or more actions requires approval.
C17_RateLimitAtMostFive ==
  hpc = "checks_done" =>
    /\ CheckNamed(hPlan, "rate_limit").passed <=> Len(hPlan.actions) <= 5
    /\ Len(hPlan.actions) >= 6 => hPlan.approvalRequired

C17_Witness ==
  /\ hpc = "checks_done" /\ Len(hPlan.actions) = 6
  /\ ~CheckNamed(hPlan, "rate_limit").passed /\ hPlan.approvalRequired

\* An action whose memory size or timeout is above the platform ceiling.
AboveCeiling(a) == a.memorySize > 3008 \/ a.timeout > 900

\* C18: the resource_limit check of a built plan passes exactly when no action
\* has a memory size or timeout above the platform ceiling, and a plan with
\* such an action requires approval.
C18_ResourceLimitChecksCeilings ==
  hpc = "checks_done" =>
    LET above == \E i \in DOMAIN hPlan.actions : AboveCeiling(hPlan.actions[i])
    IN /\ CheckNamed(hPlan, "resource_limit").passed <=> ~above
       /\ above => hPlan.approvalRequired

\* C19: the success flag verify returns is false exactly when one of the
\* checks in the result has passed = false; with a function name that is when
\* some probe did not pass, and without one no check is present and success is
\* true.
C19_SuccessIsAndOfChecks ==
  verification.done =>
    /\ ~verification.success <=>
         \E i \in DOMAIN verification.checks : ~verification.checks[i].passed
    /\ IF ExtractFunctionName(incident.resourceArn) # Null
         THEN verification.success <=>
                \A i \in DOMAIN verification.probes : verification.probes[i] = "pass"
         ELSE verification.checks = <<>> /\ verification.success

C19_Witness ==
  /\ verification.done /\ Len(verification.checks) = 3
  /\ verification.checks[1].passed /\ ~verification.checks[2].passed
  /\ verification.checks[3].passed /\ ~verification.success

\* C20: with a function name, verify returns exactly the health, test
\* invocation and metrics checks, in this order, whichever of the underlying
\* calls threw; a check whose call threw has passed = false and carries the
\* error message, and a run in which a check threw still has its verification
\* result.
C20_ChecksFaultTolerant ==
  /\ (verification.done /\ ExtractFunctionName(incident.resourceArn) # Null) =>
       /\ Len(verification.checks) = 3
       /\ \A i \in 1..3 :
            /\ verification.checks[i].name =
                 <<"Lambda Health Check", "Test Invocation", "Metrics Check">>[i]
            /\ verification.probes[i] = "throw" =>
                 /\ ~verification.checks[i].passed
                 /\ verification.checks[i].details = "error.message"
            /\ verification.probes[i] = "pass" => verification.checks[i].passed
  /\ "verification" \in failures =>
       /\ verification.done
       /\ hpc \in {"set_final", "returned", "thrown", "responded"}
       /\ hpc = "thrown" => "store" \in failures

C20_Witness ==
  /\ verification.done /\ Len(verification.checks) = 3
  /\ verification.probes = <<"throw", "pass", "throw">>
  /\ verification.checks[2].passed /\ ~verification.success
  /\ hpc = "returned"

RECURSIVE Total(_)
Total(vs) == IF vs = <<>> THEN 0 ELSE vs[Len(vs)] + Total(SubSeq(vs, 1, Len(vs) - 1))

\* C21: with a function name, the metrics check of the verification result
\* has passed = true exactly when the fetch did not throw and the Errors values
\* it returned add up to zero, and metricsImproved equals that flag; without a
\* function name there is no such check and metricsImproved is false.
C21_MetricsCheckIffZeroErrors ==
  verification.done =>
    IF ExtractFunctionName(incident.resourceArn) # Null
      THEN /\ verification.checks[3].name = "Metrics Check"
           /\ verification.checks[3].passed <=>
                (~verification.fetched.threw /\ Total(verification.fetched.values) = 0)
           /\ verification.metricsImproved = verification.checks[3].passed
      ELSE ~verification.metricsImproved /\ verification.checks = <<>>

C21_Witness ==
  /\ verification.done /\ Len(verification.checks) = 3
  /\ verification.fetched.values = <<2, 0>>
  /\ ~verification.checks[3].passed /\ ~verification.metricsImproved

\* C30: a failure of the metrics fetch or of the log query does not make
\* investigate fail: the step in which it happens still issues the diagnosis
\* request, with the metrics gathered before the failure and no logs, and it
\* returns a DiagnosisResult unless the diagnosis call or the audit write
\* fails.
C30_InvestigateDegradesGracefully ==
  [][(hpc = "investigate" /\ "telemetry" \in failures' /\ "telemetry" \notin failures)
       => /\ request'.fn = "diagnoseIncident"
          /\ ~request'.logs
          /\ \/ /\ hpc' = "plan"
                /\ diagnosis' # NoDiagnosis
                /\ diagnosis'.hasMetrics = request'.metrics
             \/ /\ hpc' = "thrown"
                /\ failures' \cap {"diagnosis", "store"} # {}]_vars

C30_Witness ==
  /\ hpc = "plan" /\ "telemetry" \in failures
  /\ request = DiagnoseRequest(incident, [metrics |-> TRUE, logs |-> FALSE])
  /\ diagnosis # NoDiagnosis /\ diagnosis.hasMetrics

\* C22: for a series of 0, 1 or 2 values and any threshold,
\* analyzeMetricAnomalies returns hasAnomaly = false and no anomalies.
C22_ShortSeriesNeverAnomalous ==
  (hpc = "anomaly_done" /\ Len(request.values) \in {0, 1, 2})
    => ~reply.hasAnomaly /\ reply.anomalies = <<>>

C22_Witness ==
  /\ hpc = "anomaly_done" /\ request = AnalyzeRequest(<<1, 10>>, -1)
  /\ ~reply.hasAnomaly

\* C23: for the series [1,2,1,10] and threshold 2, analyzeMetricAnomalies
\* returns hasAnomaly = true and flags exactly the value 10.
C23_OutlierTenIsFlagged ==
  (hpc = "anomaly_done" /\ request = AnalyzeRequest(<<1, 2, 1, 10>>, 2))
    => /\ reply.hasAnomaly
       /\ reply.anomalies = <<[index |-> 4, value |-> 10]>>

\* C24: for a series of three or more identical values and any threshold,
\* analyzeMetricAnomalies flags no point and hasAnomaly is false.
C24_FlatSeriesNeverAnomalous ==
  (/\ hpc = "anomaly_done"
   /\ Len(request.values) >= 3
   /\ \A i \in DOMAIN request.values : request.values[i] = request.values[1])
    => ~reply.hasAnomaly /\ reply.anomalies = <<>>

HasWord(text, ws) == \E i \in DOMAIN text : text[i] \in ws
OfType(actions, type) == { i \in DOMAIN actions : actions[i].type = type }

\* C25: the actions returned for a narrative are fixed by the keywords it
\* contains, in any letter case: one update_config action (memorySize 512,
\* timeout 30, order 1) iff it contains "memory" or "timeout", one
\* restart_service action (order 2) iff it contains "restart" or "redeploy",
\* and one custom action whose note is the narrative iff it contains none of
\* the four; nothing else is returned.
C25_ClassifierByKeywords ==
  hpc = "classify_done" =>
    LET text == request.planText
        acts == reply.actions
        mem  == HasWord(text, {"Memory", "memory", "timeout"})
        rst  == HasWord(text, {"RESTART", "restart", "redeploy"})
        n(b) == IF b THEN 1 ELSE 0
    IN /\ Cardinality(OfType(acts, "update_config")) = n(mem)
       /\ \A i \in OfType(acts, "update_config") :
            acts[i].memorySize = 512 /\ acts[i].timeout = 30 /\ acts[i].order = 1
       /\ Cardinality(OfType(acts, "restart_service")) = n(rst)
       /\ \A i \in OfType(acts, "restart_service") : acts[i].order = 2
       /\ Cardinality(OfType(acts, "custom")) = n(~mem /\ ~rst)
       /\ \A i \in OfType(acts, "custom") : acts[i].note = text
       /\ Len(acts) = n(mem) + n(rst) + n(~mem /\ ~rst)

C25_Witness ==
  /\ hpc = "classify_done" /\ request.planText = <<"redeploy", "Memory">>
  /\ Len(reply.actions) = 2
  /\ reply.actions[1].type = "update_config" /\ reply.actions[2].type = "restart_service"

ConfigAt512And30(actions) ==
  \E i \in DOMAIN actions :
    /\ actions[i].type = "update_config" /\ actions[i].order = 1
    /\ actions[i].memorySize = 512 /\ actions[i].timeout = 30

\* C26 as stated: whenever the incident description contains "timeout" and
\* "memory", the plan has an update_config action with memory 512 and timeout
\* 30 at order 1 and no restart_service action.
C26_Original ==
  (/\ hpc = "save_plan"
   /\ HasWord(incident.description, {"timeout"})
   /\ HasWord(incident.description, {"Memory", "memory"}))
    => /\ ConfigAt512And30(hPlan.actions)
       /\ OfType(hPlan.actions, "restart_service") = {}

\* C26: whenever the narrative the reasoning service returned to the planner
\* contains "timeout" or "memory" in any letter case, the plan has an
\* update_config action with memory 512 and timeout 30 at order 1; the plan has
\* no restart_service action exactly when that narrative contains neither
\* "restart" nor "redeploy".  The incident description plays no part.
C26_PlanFollowsNarrative ==
  hpc = "save_plan" =>
    /\ request.fn = "parseRemediationActions"
    /\ HasWord(request.planText, {"timeout", "Memory", "memory"})
         => ConfigAt512And30(hPlan.actions)
    /\ (OfType(hPlan.actions, "restart_service") = {})
         <=> ~HasWord(request.planText, {"RESTART", "restart", "redeploy"})

C26_Witness ==
  /\ hpc = "save_plan"
  /\ incident.description = <<"timeout", "Memory">>
  /\ request.planText = <<"Memory">>
  /\ ConfigAt512And30(hPlan.actions)
  /\ OfType(hPlan.actions, "restart_service") = {}

ActionWithId(id) == CHOOSE a \in { plan.actions[k] : k \in DOMAIN plan.actions } : a.id = id
HasResult(id) == \E k \in DOMAIN results : results[k].actionId = id

\* C27: whatever the positions of the actions in plan.actions, an action is
\* dispatched only after every action of the plan with a smaller order has been
\* dispatched and has returned its result, so the actions attempted run in
\* ascending order.
C27_DispatchAscendingByOrder ==
  /\ [][dispatched' # dispatched =>
          LET b == ActionWithId(dispatched'[Len(dispatched')])
          IN \A k \in DOMAIN plan.actions :
               plan.actions[k].order < b.order =>
                 /\ \E i \in DOMAIN dispatched : dispatched[i] = plan.actions[k].id
                 /\ HasResult(plan.actions[k].id)]_vars
  /\ [](\A i, j \in DOMAIN dispatched :
          ActionWithId(dispatched[i]).order < ActionWithId(dispatched[j]).order => i < j)

\* The action ids are the positions in the list executeRemediation was given:
\* the action given last (order 1) runs first, the one given first (order 3) last.
C27_Witness ==
  /\ epc = "done" /\ dispatched = <<3, 2, 1>> /\ Len(results) = 3
  /\ ActionWithId(3).order = 1 /\ ActionWithId(2).order = 2 /\ ActionWithId(1).order = 3

ActionAudits == SelectSeq(audit, IsActionAudit)
Recorded(i) ==
  /\ ActionAudits[i].action = <<"action_executed", results[i].actionId>>
  /\ ActionAudits[i].result = (IF results[i].success THEN "success" ELSE "failure")

\* C28: an action is dispatched only when the outcome of every action
\* attempted before it is in the audit trail; while an outcome is being
\* written, and if that write fails, exactly the last result is missing from
\* the trail; and when executeRemediation returns, after a failing action as
\* well, the action audit entries are the results returned, one entry per
\* result with the same action id and outcome.
C28_OutcomeAuditedBeforeNext ==
  /\ [][dispatched' # dispatched =>
          /\ Len(ActionAudits) = Len(results)
          /\ \A i \in DOMAIN results : Recorded(i)]_vars
  /\ [](epc \in {"log", "thrown"} =>
          /\ Len(ActionAudits) = Len(results) - 1
          /\ \A i \in DOMAIN ActionAudits : Recorded(i))
  /\ [](epc = "done" =>
          /\ Len(ActionAudits) = Len(results)
          /\ \A i \in DOMAIN results : Recorded(i))

C28_Witness ==
  /\ epc = "done" /\ Len(results) = 2
  /\ results[1].success /\ ~results[2].success
  /\ Len(ActionAudits) = 2
  /\ ActionAudits[1].result = "success" /\ ActionAudits[2].result = "failure"

Unregistered == {"scale_resources", "rollback", "custom"}

\* C29: dispatching an action of type scale_resources, rollback or custom
\* issues no call to the resource controller and yields a result with
\* success = true and the "not implemented" output; executeRemediation never
\* returns with such an action as its last result while actions ordered after
\* it are left unattempted.
C29_UnregisteredTypeSucceeds ==
  /\ [][(dispatched' # dispatched
          /\ ActionWithId(dispatched'[Len(dispatched')]).type \in Unregistered)
         => /\ rcCalls' = rcCalls
            /\ results'[Len(results')].actionId = dispatched'[Len(dispatched')]
            /\ results'[Len(results')].success
            /\ results'[Len(results')].output
                 = "Action type not implemented for auto-execution"]_vars
  /\ []((/\ epc = "done" /\ results # <<>>
         /\ ActionWithId(results[Len(results)].actionId).type \in Unregistered)
          => Len(results) = Len(plan.actions))

C29_Witness ==
  /\ epc = "done" /\ Len(plan.actions) = 2 /\ Len(results) = 2
  /\ plan.actions[1].type = "rollback" /\ plan.actions[2].type = "update_config"
  /\ results[1].success
  /\ results[1].output = "Action type not implemented for auto-execution"
  /\ Len(rcCalls) = 1

ParsableTexts == { <<"{", "A", "}">>, <<"fence", "{", "B", "}", "fence">> }
UncachedCallRules ==
  /\ (planResult.status # "none" /\ ~planResult.useCache)
       => /\ planResult.served
          /\ planResult.status = "returned"
               => ~planResult.cached /\ planCache = CacheItem(planResult.plan)
  /\ (planResult.served /\ planResult.text \notin ParsableTexts)
       => planResult.status = "thrown" /\ planCache = planResult.slotBefore

\* C36 as stated: once a plan is in the slot, every call with useCache = true
\* returns that plan with cached = true without calling the reasoning service.
C36_Original ==
  /\ (planResult.useCache /\ planResult.slotBefore.present)
       => /\ planResult.status = "returned" /\ planResult.cached
          /\ planResult.plan = planResult.slotBefore.plan
          /\ ~planResult.served
          /\ planCache = planResult.slotBefore
  /\ UncachedCallRules

\* C36: once a plan is in the slot, a call with useCache = true whose cache
\* read completes returns the plan in the slot with cached = true, does not
\* call the reasoning service and leaves the slot as it is; when the cache read
\* throws the call goes on to the reasoning service as on a miss.  A call with
\* useCache = false always calls the service and, when it returns, has put its
\* plan in the slot; a response that does not parse makes the call throw and
\* leaves the slot unchanged.
C36_CacheIsOneGlobalSlot ==
  /\ (planResult.useCache /\ planResult.slotBefore.present)
       => IF planResult.readOk
            THEN /\ planResult.status = "returned" /\ planResult.cached
                 /\ planResult.plan = planResult.slotBefore.plan
                 /\ ~planResult.served
                 /\ planCache = planResult.slotBefore
            ELSE planResult.served /\ ~planResult.cached
  /\ UncachedCallRules

C36_Witness ==
  /\ planResult.useCache /\ planResult.slotBefore = CacheItem("B") /\ planResult.readOk
  /\ planResult.status = "returned" /\ planResult.cached /\ planResult.plan = "B"
  /\ ~planResult.served /\ planCache = CacheItem("B")

\* C31: when the reasoning service's response cannot be parsed as a plan, the
\* run stops in the plan phase with no configuration update issued, the
\* incident marked failed in the incident store and a failure entry in the
\* audit trail.
C31_ParseFailureMarksFailed ==
  (hpc = "run_thrown" /\ "parse" \in failures) =>
    /\ \A i \in DOMAIN rcCalls : rcCalls[i].op # "update"
    /\ \E id \in IncidentIds : incidentStore[id] = "failed"
    /\ \E i \in DOMAIN audit : audit[i].result = "failure"

\* C32: a restart_service run replaces an environment map that another
\* incident wrote after the run had read the configuration only when the two
\* incidents target the same function; with different targets no write is
\* lost and each function holds the stamp of the one run that wrote it.
C32_NoInterferenceOnDisjointResources ==
  /\ \A l \in lostUpdates : proc[l.by].target = proc[l.of].target /\ l.by # l.of
  /\ proc[1].target # proc[2].target =>
       /\ lostUpdates = {}
       /\ \A p \in Procs :
            proc[p].pc = "done" =>
              env[proc[p].target] = [lastRestart |-> proc[p].stamp, version |-> 1,
                                     writer |-> p]

\* Both incidents target fn; incident 1 read the configuration, incident 2
\* then wrote its map (stamp 2), and incident 1 wrote the map it had read with
\* its older stamp 1 over it.
C32_Witness ==
  /\ proc[1].target = "fn" /\ proc[2].target = "fn"
  /\ proc[1].pc = "done" /\ proc[2].pc = "done"
  /\ lostUpdates = {[by |-> 1, of |-> 2, overwritten |-> 2, with |-> 1]}
  /\ env["fn"].lastRestart = 1 /\ env["fn"].writer = 1

C34_FinalStatusFollowsVerification ==
  /\ [](Len(statusWrites) = 4 =>
          /\ verification.done
          /\ statusWrites[4] = "resolved" <=> verification.success)
  /\ [](hpc \in {"set_final", "returned"} => verification.done)
  /\ [][hpc' = "verify" /\ hpc # "verify" => hpc = "executing" /\ epc = "done"]_vars
  /\ [][verification' # verification => hpc = "verify" /\ epc = "idle"]_vars

\* The only action of the plan failed, and the incident is marked resolved.
C34_Witness ==
  /\ hpc = "returned" /\ statusWrites[4] = "resolved"
  /\ Len(results) = 1 /\ ~results[1].success
  /\ Len(verification.checks) = 3 /\ verification.success
  /\ incidentStore[incident.id] = "resolved"

\* C35: the conversation of executeAgenticWorkflow always starts with one user
\* turn holding the initial prompt, its roles alternate user, assistant, user,
\* ..., every later user turn holds the results of the tool uses of the
\* assistant turn before it, and each call to the reasoning service is made
\* with a conversation that ends in a user turn.
C35_ConversationAlternates ==
  /\ [](lpc # "idle" =>
          /\ messages # <<>>
          /\ messages[1] = [role |-> "user", kind |-> "text", content |-> <<"prompt">>]
          /\ \A i \in DOMAIN messages :
               messages[i].role = (IF i % 2 = 1 THEN "user" ELSE "assistant")
          /\ \A i \in DOMAIN messages :
               (i > 1 /\ i % 2 = 1) =>
                 /\ messages[i].kind = "toolResults"
                 /\ messages[i - 1].kind = "toolUses"
                 /\ [k \in DOMAIN messages[i].content |-> messages[i].content[k].toolUseId]
                      = [k \in DOMAIN messages[i - 1].content |->
                           messages[i - 1].content[k].toolUseId])
  /\ [][iterations' # iterations => messages[Len(messages)].role = "user"]_vars

C35_Witness ==
  /\ lpc = "loop" /\ iterations = 2 /\ Len(messages) = 5
  /\ messages[4].role = "assistant" /\ Len(messages[4].content) = 2
  /\ messages[5].role = "user" /\ Len(messages[5].content) = 2

Failed(o) == o # "resolves"

\* C38: retryWithBackoff calls fn at most maxRetries times and never again
\* after a call that resolved, whose value it returns; it rejects only after
\* maxRetries failed calls, with the error of the last one (with maxRetries = 0
\* without any call); the k-th wait (k from 0) lasts baseDelay * 2^k and
\* follows the k-th failed call, and no wait follows the last attempt.
C38_RetryWithBackoff ==
  retry.pc # "idle" =>
    /\ Len(retry.calls) <= retry.maxRetries
    /\ \A k \in DOMAIN retry.calls : k < Len(retry.calls) => Failed(retry.calls[k])
    /\ (retry.pc = "returned") <=>
         (retry.calls # <<>> /\ retry.calls[Len(retry.calls)] = "resolves")
    /\ retry.pc = "returned" =>
         retry.value = "value" /\ Len(retry.waits) = Len(retry.calls) - 1
    /\ retry.pc = "rejected" =>
         /\ Len(retry.calls) = retry.maxRetries
         /\ IF retry.maxRetries = 0
              THEN retry.calls = <<>> /\ retry.waits = <<>>
                   /\ retry.error.kind = "Retry failed"
              ELSE /\ retry.error.call = retry.maxRetries
                   /\ retry.error.kind =
                        (IF retry.calls[retry.maxRetries] = "throws_error"
                           THEN "Error" ELSE "String")
                   /\ Len(retry.waits) = retry.maxRetries - 1
    /\ Len(retry.waits) <= Len(retry.calls)
    /\ \A k \in DOMAIN retry.waits :
         /\ retry.waits[k] = retry.baseDelay * (2 ^ (k - 1))
         /\ k < retry.maxRetries

C38_Witness ==
  /\ retry.pc = "rejected" /\ retry.maxRetries = 3 /\ retry.baseDelay = 1000
  /\ retry.calls = <<"throws_error", "throws_value", "throws_error">>
  /\ retry.waits = <<1000, 2000>>
  /\ retry.error = [kind |-> "Error", call |-> 3]

RECURSIVE SumSeq(_)
SumSeq(s) == IF s = <<>> THEN 0 ELSE s[1] + SumSeq(Tail(s))

TestFunctionCounts ==
  test.pc # "idle" =>
    /\ \A k \in DOMAIN test.batches :
         test.batches[k] >= 1 /\ test.batches[k] <= test.concurrency
    /\ Len(test.batch) <= test.concurrency
    /\ SumSeq(test.batches) = Len(test.results)
    /\ \A k \in DOMAIN test.results : test.results[k].payload = test.payloads[k]
    /\ test.successful + test.failed = Len(test.results)
    /\ test.successful = Successes(test.results)
    /\ test.pc = "returned" =>
         /\ test.totalTests = Len(test.payloads)
         /\ test.totalTests = Len(test.results)
         /\ test.successful + test.failed = test.totalTests
    /\ (test.concurrency = 0 /\ test.payloads # <<>>) => test.pc # "returned"

\* C39: testFunction run with concurrency >= 1 always returns; its batches
\* hold at most concurrency invocations and run one after another in payload
\* order; on return successful + failed = totalTests = number of results; with
\* concurrency = 0 and at least one payload it never returns.
C39_TestFunctionTerminates ==
  /\ []TestFunctionCounts
  /\ (test.pc = "loop" /\ test.concurrency >= 1) ~> (test.pc = "returned")

C39_Witness ==
  /\ test.pc = "returned" /\ test.concurrency = 2 /\ test.totalTests = 3
  /\ test.batches = <<2, 1>> /\ test.successful = 2 /\ test.failed = 1

QueriesStatus(e) == e.incidentId # NoId /\ e.resourceArn = Null
Count(s, x) == Cardinality({i \in DOMAIN s : s[i] = x})

HandlerFrame ==
  event # NoEvent =>
    IF QueriesStatus(event)
      THEN /\ hpc = "responded" /\ response \in {200, 500}
           /\ incident = NoIncident /\ statusWrites = <<>> /\ audit = <<>>
           /\ diagnosis = NoDiagnosis /\ hPlan = NoPlan /\ verification = NoVerification
           /\ request = NoRequest /\ messages = <<>> /\ planResult = NoPlanResult
           /\ rcCalls = <<>> /\ dispatched = <<>> /\ results = <<>>
      ELSE /\ hpc # "idle"
           /\ incident.id = (IF event.incidentId # NoId THEN event.incidentId ELSE GenId)
           /\ incident.resourceArn = event.resourceArn
           /\ Count(statusWrites, "open") <= 1
           /\ hpc = "responded" => response \in {200, 500}

HandlerSteps ==
  /\ (event' # NoEvent /\ QueriesStatus(event')) =>
       UNCHANGED <<incidentStore, planCache, env>>
  /\ hpc' = "save" => (hpc = "idle" /\ ~QueriesStatus(event'))
  /\ (hpc = "thrown" /\ hpc' # hpc) => (hpc' = "responded" /\ response' = 500)
  /\ (hpc = "returned" /\ hpc' # hpc) => (hpc' = "responded" /\ response' = 200)
  /\ hpc = "responded" => UNCHANGED vars

\* C40: an event with an incidentId and no resourceArn is answered after
\* reading only: nothing is written to the incident table, the audit trail,
\* the plan cache or a function's configuration, and no reasoning or resource
\* controller call is made; every other event starts handleIncident exactly
\* once with the incident built from it; whatever handleIncident throws, and
\* whatever a read of the status query throws, ends as a response with
\* statusCode 500, and the handler's only way out is a response.
C40_HandlerFrame == []HandlerFrame /\ [][HandlerSteps]_vars

C40_Witness ==
  /\ event = [incidentId |-> GivenId, resourceArn |-> Null,
              description |-> <<"timeout", "Memory">>]
  /\ hpc = "responded" /\ response = 200 /\ incidentStore[GivenId] = "remediating"

====
